---- MODULE Spec2Model ----
(***************************************************************************)
(* A model of the sacas-daemon core: the game state store (src/state.rs,   *)
(* src/types.rs), the periodic producers that drive it (src/mining,        *)
(* src/sync), the command surface (src/grpc/service.rs) and the request    *)
(* signers (src/sync/signed_sync.rs, src/combat/client.rs,                 *)
(* src/radar/client.rs, src/websocket/client.rs).                          *)
(*                                                                         *)
(* Machine integers keep their width.  u64 and i64 are modelled at a       *)
(* reduced width of WordBits bits (TLC's own integers are 32 bits wide),   *)
(* so that every overflow the Rust code can meet is reachable.  Integer    *)
(* overflow in Rust depends on the build: with overflow checks (the debug  *)
(* profile) the operation panics, without them (the release profile) it    *)
(* wraps.  The build is chosen in Init and both are explored.              *)
(*                                                                         *)
(* f64 arithmetic is modelled by exact rational arithmetic on integers     *)
(* (network quality in tenths), followed by the truncation the `as u64`    *)
(* cast performs.  Strings are TLA+ strings.                               *)
(***************************************************************************)
EXTENDS Integers, Sequences, FiniteSets, TLC

(***************************************************************************)
(* Bounds of the model.                                                    *)
(***************************************************************************)
WordBits == 16
MaxEvents == 5

(***************************************************************************)
(* Machine integers.                                                       *)
(***************************************************************************)
U64Modulus == 2 ^ WordBits
U64Max == U64Modulus - 1
I64Max == 2 ^ (WordBits - 1) - 1
I64Min == -(2 ^ (WordBits - 1))

\* `x as u64` of an i64 and `x as i64` of a u64: reinterpretation, no check.
AsU64(i) == i % U64Modulus
AsI64(u) == IF u > I64Max THEN u - U64Modulus ELSE u

\* u64::saturating_sub
saturating_sub(a, b) == IF b > a THEN 0 ELSE a - b

\* The outcome of a u64 operation whose mathematical result is r: a panic
\* with overflow checks, the wrapped value without.
U64Overflows(r) == r > U64Max \/ r < 0
I64Overflows(r) == r > I64Max \/ r < I64Min
WrapU64(r) == r % U64Modulus
WrapI64(r) == AsI64(r % U64Modulus)

VARIABLES
    overflow_checks,      \* the build: TRUE = overflow panics, FALSE = wraps
    state,                \* the GameState behind StateManager's RwLock
    now,                  \* the wall clock, Unix seconds
    events,               \* timer firings, commands and clock advances so far
    mining_pc,            \* MiningEngine::run: "idle", "apply" or "dead"
    mining_income,        \* total_income computed from the snapshot
    sync_pc,              \* start_sync_loop: "idle", "sending" or "dead"
    last_synced_entropy,
    current_entropy,      \* the entropy the sync task read this tick
    request,              \* the SignedSyncRequest in flight, or NoRequest
    sent,                 \* the HTTP request of the sync task in flight, or None
    net_calls,            \* how many HTTP requests the sync task has sent
    sync_event,           \* what the sync task did last
    nonce_counter,        \* stands for Uuid::new_v4(): a fresh value per call
    last_call,            \* the last store operation or command and its result
    signed,               \* every HTTP request a signer has signed and sent
    ws,                   \* the WebSocket client and its current connection
    snapshot,             \* the GameState copy the mining tick holds, or None
    response,             \* the last response of the local RPC service
    key_store,            \* the device key file and the identities loaded
    probe,                \* the last probe tick: anchors, pings, latency vector
    lock,                 \* who holds the store's RwLock: writers and readers
    tasks                 \* concurrent callers of the store: position and call

vars == <<overflow_checks, state, now, events, mining_pc, mining_income,
          sync_pc, last_synced_entropy, current_entropy, request,
          sent, net_calls, sync_event, nonce_counter, last_call, signed,
          ws, snapshot, response, key_store, probe, lock, tasks>>

(***************************************************************************)
(* src/types.rs                                                            *)
(***************************************************************************)
\* Option<T>: None is the empty tuple, Some(x) the tuple of x.
None == <<>>
Some(x) == <<x>>
Unwrap(o) == o[1]

\* floor(ln(karma) * 600) for the karma values of the model.  ln(0) is -inf
\* and the cast of -inf to u64 saturates at 0.
LnTimes600(karma) ==
    CASE karma = 0 -> 0
      [] karma = 1 -> 0
      [] karma = 2 -> 415
      [] karma = 3 -> 659
      [] karma = 100 -> 2763
      [] karma = 65535 -> 6654
      [] karma = 131071 -> 7070

\* An inertia that is never shorter than a minute.
calculate_inertia_seconds_Minute(player) == LnTimes600(player.karma) + 60

\* Player::calculate_inertia_seconds
calculate_inertia_seconds(player) == LnTimes600(player.karma)

\* A yield that rounds to the nearest integer instead of truncating.
calculate_yield_Rounded(player) ==
    LET q == player.network_quality
        k == player.karma
    IN  CHOOSE y \in 0..(k + 1) :
            /\ y = 0 \/ (20 * y - 10) * (20 * y - 10) <= k * q * q
            /\ (20 * y + 10) * (20 * y + 10) > k * q * q

\* Player::calculate_yield: (sqrt(karma) * network_quality * 0.5) as u64, the
\* largest y with 20 y <= sqrt(karma) * (10 * network_quality).
calculate_yield(player) ==
    LET q == player.network_quality
        k == player.karma
    IN  CHOOSE y \in 0..(k + 1) :
            /\ 400 * y * y <= k * q * q
            /\ 400 * (y + 1) * (y + 1) > k * q * q

\* Player::new.  capacity = karma * 100 is a u64 multiplication.
PlayerNew(id, karma) ==
    [id |-> id,
     karma |-> karma,
     entropy |-> 0,
     capacity |-> WrapU64(karma * 100),
     defense |-> [l1 |-> 0, l2 |-> 0, l3 |-> 0, last_update |-> 0,
                  cooldown_ends |-> None],
     network_quality |-> 10,
     passive_income |-> 0,
     last_update |-> 0]

(***************************************************************************)
(* src/state.rs: the store operations.  Each takes the state under the     *)
(* write lock and yields the state it leaves and how it ended; a panic     *)
(* drops the guard and leaves the writes made before it.                   *)
(***************************************************************************)
\* StateManager::new
StateManagerNew(player_id, karma) ==
    [player |-> PlayerNew(player_id, karma), parasites |-> <<>>]

\* StateManager::update_entropy
update_entropy(s, delta, t) ==
    LET e == s.player.entropy
        sum == e + AsU64(delta)
        absPanics == delta = I64Min /\ overflow_checks
        addPanics == delta >= 0 /\ U64Overflows(sum) /\ overflow_checks
        magnitude == IF delta = I64Min THEN AsU64(I64Min) ELSE AsU64(-delta)
        added == IF delta >= 0 THEN WrapU64(sum)
                 ELSE saturating_sub(e, magnitude)
        excess == added - s.player.capacity
        decay == (excess * 2) \div 100
        final == IF added > s.player.capacity
                 THEN saturating_sub(added, decay) ELSE added
    IN  IF absPanics \/ addPanics
        THEN [state |-> s, result |-> "panic"]
        ELSE [state |-> [s EXCEPT !.player.entropy = final,
                                  !.player.last_update = t],
              result |-> "Ok"]

\* A cooldown check that compares the wrong way round.
OnCooldown_Reversed(s, t) ==
    /\ s.player.defense.cooldown_ends # None
    /\ t > Unwrap(s.player.defense.cooldown_ends)

\* The cooldown check of update_defense: Some(cooldown_ends) and now before it.
OnCooldown(s, t) ==
    /\ s.player.defense.cooldown_ends # None
    /\ t < Unwrap(s.player.defense.cooldown_ends)

\* let total = l1 + l2 + l3;
DefenseTotal(l1, l2, l3) == WrapU64(WrapU64(l1 + l2) + l3)
DefenseTotalPanics(l1, l2, l3) ==
    overflow_checks /\ (U64Overflows(l1 + l2) \/ U64Overflows(l1 + l2 + l3))

\* An update_defense that pays for the allocation out of the balance.
update_defense_Deducting(s, l1, l2, l3, t) ==
    IF OnCooldown(s, t)
    THEN [state |-> s, result |-> "OnCooldown", error |-> "Defense on cooldown"]
    ELSE IF DefenseTotalPanics(l1, l2, l3)
    THEN [state |-> s, result |-> "panic", error |-> ""]
    ELSE IF DefenseTotal(l1, l2, l3) > s.player.entropy
    THEN [state |-> s, result |-> "InsufficientEntropy",
          error |-> "Insufficient Entropy"]
    ELSE [state |-> [s EXCEPT
                        !.player.entropy = @ - DefenseTotal(l1, l2, l3),
                        !.player.defense =
                            [l1 |-> l1, l2 |-> l2, l3 |-> l3,
                             last_update |-> t,
                             cooldown_ends |->
                                 Some(t + calculate_inertia_seconds(
                                              s.player))]],
          result |-> "Ok", error |-> ""]

\* StateManager::update_defense
update_defense(s, l1, l2, l3, t) ==
    IF OnCooldown(s, t)
    THEN [state |-> s, result |-> "OnCooldown",
          error |-> "Defense on cooldown for "
                        \o ToString(Unwrap(s.player.defense.cooldown_ends) - t)
                        \o " seconds"]
    ELSE IF DefenseTotalPanics(l1, l2, l3)
    THEN [state |-> s, result |-> "panic", error |-> ""]
    ELSE IF DefenseTotal(l1, l2, l3) > s.player.entropy
    THEN [state |-> s, result |-> "InsufficientEntropy",
          error |-> "Insufficient Entropy"]
    ELSE [state |-> [s EXCEPT
                        !.player.defense =
                            [l1 |-> l1, l2 |-> l2, l3 |-> l3,
                             last_update |-> t,
                             cooldown_ends |->
                                 Some(t + calculate_inertia_seconds(
                                              s.player))]],
          result |-> "Ok", error |-> ""]

\* state.player.capacity = new_karma * 100;
KarmaCapacity(new_karma) == WrapU64(new_karma * 100)

\* StateManager::update_karma.  karma is written first; when the
\* multiplication panics, capacity keeps its old value.
update_karma(s, new_karma) ==
    IF overflow_checks /\ U64Overflows(new_karma * 100)
    THEN [state |-> [s EXCEPT !.player.karma = new_karma],
          result |-> "panic"]
    ELSE [state |-> [s EXCEPT !.player.karma = new_karma,
                              !.player.capacity = KarmaCapacity(new_karma)],
          result |-> "Ok"]

\* f64 values are counted in tenths; NaN is a value of its own that no
\* comparison holds for.
NaN == -(2 ^ 20)

\* a < b on f64
f64_lt(a, b) == a # NaN /\ b # NaN /\ a < b

\* f64::clamp: if self < min then min, if self > max then max, else self.
f64_clamp(x, min, max) ==
    LET raised == IF f64_lt(x, min) THEN min ELSE x
    IN  IF f64_lt(max, raised) THEN max ELSE raised

\* StateManager::update_network_quality
update_network_quality(s, quality) ==
    [s EXCEPT !.player.network_quality = f64_clamp(quality, 1, 15)]

\* state.parasites.iter().map(|p| p.yield_per_tick).sum()
RECURSIVE SumYield(_)
SumYield(parasites) ==
    IF parasites = <<>> THEN 0
    ELSE SumYield(SubSeq(parasites, 1, Len(parasites) - 1))
             + parasites[Len(parasites)].yield_per_tick

\* An add_parasite that recomputes passive_income before the push.
add_parasite_SumBeforePush(s, parasite) ==
    [s EXCEPT !.parasites = Append(s.parasites, parasite),
              !.player.passive_income = SumYield(s.parasites)]

\* StateManager::add_parasite
add_parasite(s, parasite) ==
    LET pushed == Append(s.parasites, parasite)
    IN  [s EXCEPT !.parasites = pushed,
                  !.player.passive_income = SumYield(pushed)]

\* StateManager::get_snapshot
get_snapshot(s) == s

\* A snapshot that shares the store's memory: a write to the store shows
\* in it.
SnapshotAfterMutation_Shared(held, new_state) ==
    IF held = None THEN None ELSE Some(new_state)

\* get_snapshot clones the GameState out of the lock: a copy that is held
\* stays as it was taken when the store is written.
SnapshotAfterMutation(held, new_state) == held

(***************************************************************************)
(* src/device/identity.rs.  Ed25519 signing is deterministic (RFC 8032); a *)
(* signature is modelled by the key and message it was made from, so two   *)
(* signatures are equal exactly when key and message are.                  *)
(***************************************************************************)
\* DeviceIdentity::sign
sign(signing_key, message) == [key |-> signing_key, message |-> message]

\* DeviceIdentity::sign_base64
sign_base64(signing_key, message) ==
    [encoding |-> "base64", signature |-> sign(signing_key, message)]

\* The length of an Ed25519 private key in bytes.
KeyLen == 32

\* n bytes of value b
Bytes(n, b) == [i \in 1..n |-> b]

\* SigningKey::from_bytes, SigningKey::to_bytes and
\* SigningKey::verifying_key: the public key is a function of the secret.
from_bytes(key_array) == [secret |-> key_array]
to_bytes(signing_key) == signing_key.secret
verifying_key(signing_key) == [public_of |-> signing_key.secret]

\* Verifier::verify: the signature was made over this message with the
\* signing key of this public key.
verify(public, message, signature) ==
    /\ signature.message = message
    /\ verifying_key(signature.key) = public

\* DeviceIdentity::public_key_base64
public_key_base64(identity) ==
    [encoding |-> "base64", bytes |-> identity.verifying_key]

\* The key file is absent, no identity has been returned.
\* Nobody holds the RwLock; no caller has entered a store operation.
NoLock == [writers |-> {}, readers |-> {}]
NoTasks == <<>>

\* No probe tick has run yet.
NoProbe == [anchors |-> <<>>, pings |-> <<>>, result |-> "None", data |-> <<>>]

NoKeyStore == [file |-> None, writes |-> 0, reads |-> 0, returned |-> <<>>]

\* DeviceIdentity::generate, given the 32 random bytes it draws
generate(random) ==
    [signing_key |-> from_bytes(random),
     verifying_key |-> verifying_key(from_bytes(random))]

\* DeviceIdentity::load on the file's bytes; read_ok = fs::read succeeded.
load(file, read_ok) ==
    IF ~read_ok
    THEN [ok |-> FALSE, error |-> "Failed to read device key file"]
    ELSE IF Len(file) # KeyLen
    THEN [ok |-> FALSE,
          error |-> "Invalid key file: expected 32 bytes, got "
                        \o ToString(Len(file))]
    ELSE [ok |-> TRUE,
          identity |-> [signing_key |-> from_bytes(file),
                        verifying_key |-> verifying_key(from_bytes(file))]]

\* A save that writes the key in a text encoding, two characters per byte.
save_Encoded(store, identity, outcome) ==
    CASE outcome = "write failed" ->
            [store |-> store, ok |-> FALSE]
      [] outcome = "permissions failed" ->
            [store |-> [store EXCEPT
                           !.file = Some(to_bytes(identity.signing_key)
                                           \o to_bytes(identity.signing_key)),
                           !.writes = @ + 1],
             ok |-> FALSE]
      [] OTHER ->
            [store |-> [store EXCEPT
                           !.file = Some(to_bytes(identity.signing_key)
                                           \o to_bytes(identity.signing_key)),
                           !.writes = @ + 1],
             ok |-> TRUE]

\* DeviceIdentity::save: fs::write of the 32 key bytes, then the 0o600
\* permissions; either step can fail, the second after the file is written.
save(store, identity, outcome) ==
    CASE outcome = "write failed" ->
            [store |-> store, ok |-> FALSE]
      [] outcome = "permissions failed" ->
            [store |-> [store EXCEPT
                           !.file = Some(to_bytes(identity.signing_key)),
                           !.writes = @ + 1],
             ok |-> FALSE]
      [] OTHER ->
            [store |-> [store EXCEPT
                           !.file = Some(to_bytes(identity.signing_key)),
                           !.writes = @ + 1],
             ok |-> TRUE]

\* A load_or_generate that replaces a key file it cannot load.
load_or_generate_Replace(store, random, read_ok, outcome) ==
    LET loaded == IF store.file # None
                  THEN load(Unwrap(store.file), read_ok)
                  ELSE [ok |-> FALSE, error |-> ""]
        read == IF store.file # None
                THEN [store EXCEPT !.reads = @ + 1] ELSE store
        saved == save(read, generate(random), outcome)
    IN  IF loaded.ok
        THEN [store |-> read, result |-> loaded]
        ELSE [store |-> saved.store,
              result |-> IF saved.ok
                         THEN [ok |-> TRUE, identity |-> generate(random)]
                         ELSE [ok |-> FALSE, error |-> "save failed"]]

\* DeviceIdentity::load_or_generate
load_or_generate(store, random, read_ok, outcome) ==
    IF store.file # None
    THEN [store |-> [store EXCEPT !.reads = @ + 1],
          result |-> load(Unwrap(store.file), read_ok)]
    ELSE LET identity == generate(random)
             saved == save(store, identity, outcome)
         IN  [store |-> saved.store,
              result |-> IF saved.ok
                         THEN [ok |-> TRUE, identity |-> identity]
                         ELSE [ok |-> FALSE, error |-> "save failed"]]

(***************************************************************************)
(* src/sync/signed_sync.rs                                                 *)
(***************************************************************************)
NoRequest == None

\* The network_quality field of the body: "{:.1}" for a whole number,
\* to_string() otherwise (quality in tenths).
FormatQuality(q) ==
    IF q % 10 = 0
    THEN ToString(q \div 10) \o ".0"
    ELSE ToString(q \div 10) \o "." \o ToString(q % 10)

\* The body JSON create_and_sign formats by hand.
FormatBody(entropy_delta, network_quality, uptime_seconds) ==
    "{\"entropy_delta\":" \o ToString(entropy_delta)
        \o ",\"network_quality\":" \o FormatQuality(network_quality)
        \o ",\"uptime_seconds\":" \o ToString(uptime_seconds) \o "}"

\* A canonical message that leaves the nonce out.
canonical_message_NoNonce(req) ==
    "POST|/api/devices/" \o req.device_id \o "/sync|" \o req.body_json
        \o "|" \o ToString(req.timestamp) \o "|"

\* A canonical message whose path is the suffix after /api/, the way the
\* combat and radar clients cut it.
canonical_message_ApiSuffix(req) ==
    "POST|devices/" \o req.device_id \o "/sync|" \o req.body_json
        \o "|" \o ToString(req.timestamp) \o "|" \o req.nonce

\* SignedSyncRequest::canonical_message
canonical_message(req) ==
    "POST|/api/devices/" \o req.device_id \o "/sync|" \o req.body_json
        \o "|" \o ToString(req.timestamp) \o "|" \o req.nonce

\* A generator that hands out the same value on every call.
NewNonce_Fixed(counter) == "uuid-0"

\* Uuid::new_v4().to_string(): a value not handed out before.
NewNonce(counter) == "uuid-" \o ToString(counter)

\* SignedSyncRequest::create_and_sign
create_and_sign(device_id, entropy_delta, network_quality, uptime_seconds, identity, nonce, timestamp) ==
    LET unsigned ==
            [device_id |-> device_id,
             entropy_delta |-> entropy_delta,
             network_quality |-> network_quality,
             uptime_seconds |-> uptime_seconds,
             timestamp |-> timestamp,
             nonce |-> nonce,
             signature |-> "",
             body_json |-> FormatBody(entropy_delta, network_quality,
                                      uptime_seconds)]
    IN  [unsigned EXCEPT
            !.signature = sign_base64(identity, canonical_message(unsigned))]

\* Headers whose timestamp is read again when the request is sent.
headers_Regenerated(req) ==
    [device_id |-> req.device_id,
     signature |-> req.signature,
     timestamp |-> ToString(req.timestamp + 1),
     nonce |-> req.nonce]

\* SignedSyncRequest::headers
headers(req) ==
    [device_id |-> req.device_id,
     signature |-> req.signature,
     timestamp |-> ToString(req.timestamp),
     nonce |-> req.nonce]

\* A body serialisation that prints a whole network_quality without ".0".
body_string_Reserialized(req) ==
    "{\"entropy_delta\":" \o ToString(req.entropy_delta)
        \o ",\"network_quality\":"
        \o (IF req.network_quality % 10 = 0
            THEN ToString(req.network_quality \div 10)
            ELSE FormatQuality(req.network_quality))
        \o ",\"uptime_seconds\":" \o ToString(req.uptime_seconds) \o "}"

\* SignedSyncRequest::body_string
body_string(req) == req.body_json

(***************************************************************************)
(* src/sync/mod.rs                                                         *)
(***************************************************************************)
ServerUrl == "https://srv"
DeviceId == "dev-1"
SyncIdentity == "key-1"

\* The request sync_to_server builds and sends.
SyncHttpRequest(server_url, req) ==
    [signer |-> "sync",
     method |-> "POST",
     url |-> server_url \o "/api/devices/" \o req.device_id \o "/sync",
     headers |-> headers(req),
     body |-> body_string(req)]

\* A skip test that only skips a falling balance.
SkipSync_Negative(entropy_delta) == entropy_delta < 0

\* if entropy_delta == 0 { continue; }
SkipSync(entropy_delta) == entropy_delta = 0

\* last_synced_entropy = current_entropy;
AdvanceBaseline(last, current) == current

\* An Err arm that rolls the unsynced delta into the baseline.
BaselineAfterFailure_Advanced(last, current) == current

\* last_synced_entropy in the Err arm: not assigned.
BaselineAfterFailure(last, current) == last

(***************************************************************************)
(* The inputs of the model.                                                *)
(***************************************************************************)
\* config.karma
InitKarma == {1, 100}
\* device_karma of a sync response (an i64)
ResponseKarma == {-1, 2}
\* how far the clock moves in one step
ClockSteps == {3000}
\* defense_array of an UpdateDefense command
DefenseArrays ==
    {<<0, 0, 0>>, <<1, 1, 1>>, <<U64Max, 1, 0>>, <<1, 1>>}
\* the latency vectors a probe tick measures, one entry per anchor (ms)
ProbeLatencies == {<<20, 20>>, <<999, 999>>}
\* why sync_to_server returns Err
SyncFailures == {"transport", "status", "parse"}
\* config.mining.tick_interval_secs
TickIntervalSecs == 5

NoCall == [op |-> "none", args |-> <<>>, result |-> "none"]

\* No RPC has been answered yet.
NoResponse == [rpc |-> "none"]

\* The WebSocket client before connect_and_listen is called.
NoConnection ==
    [pc |-> "idle", sent |-> <<>>, frames |-> <<>>, handled |-> <<>>,
     result |-> "none", steps |-> 0]

\* A panic of the mining loop unwinds main (daemon.run() is awaited there) and
\* ends the process.
ProcessAlive == mining_pc # "dead"

Init ==
    /\ overflow_checks \in BOOLEAN
    /\ \E karma \in InitKarma :
          /\ overflow_checks => ~U64Overflows(karma * 100)
          /\ state = StateManagerNew(DeviceId, karma)
    /\ now = 0
    /\ events = 0
    /\ mining_pc = "idle"
    /\ mining_income = 0
    /\ sync_pc = "idle"
    /\ last_synced_entropy = 0
    /\ current_entropy = 0
    /\ request = NoRequest
    /\ sent = None
    /\ net_calls = 0
    /\ sync_event = [kind |-> "none", retry |-> FALSE, warning |-> FALSE]
    /\ nonce_counter = 0
    /\ last_call = NoCall
    /\ signed = {}
    /\ ws = NoConnection
    /\ snapshot = None
    /\ response = NoResponse
    /\ key_store = NoKeyStore
    /\ probe = NoProbe
    /\ lock = NoLock
    /\ tasks = NoTasks

\* Time passes.
AdvanceClock(d) ==
    /\ ProcessAlive
    /\ events < MaxEvents
    /\ now' = now + d
    /\ events' = events + 1
    /\ UNCHANGED <<lock, tasks, probe, key_store, snapshot, response, ws, signed, overflow_checks, state, mining_pc, mining_income,
                   sync_pc, last_synced_entropy, current_entropy,
                   request, sent, net_calls, sync_event, nonce_counter,
                   last_call>>

(***************************************************************************)
(* src/mining/engine.rs: MiningEngine::run                                 *)
(***************************************************************************)
\* (state.player.passive_income * tick_interval_secs as f64) as u64
PassiveIncome(player) == (player.passive_income * TickIntervalSecs) \div 10

\* A ticker whose firing starts an iteration while the previous one is
\* still running, as if every tick were spawned as its own task.
MiningAtTick_Spawned == mining_pc \in {"idle", "apply", "log"}

\* The loop is at ticker.tick().await: the previous iteration has ended.
MiningAtTick == mining_pc = "idle"

\* ticker.tick(), get_snapshot(), total_income = yield_value + passive
MiningTick ==
    /\ ProcessAlive
    /\ MiningAtTick
    /\ events < MaxEvents
    /\ LET taken == get_snapshot(state)
           total == calculate_yield(taken.player)
                        + PassiveIncome(taken.player)
       IN  /\ snapshot' = Some(taken)
           /\ IF overflow_checks /\ U64Overflows(total)
              THEN mining_pc' = "dead" /\ UNCHANGED mining_income
              ELSE mining_pc' = "apply" /\ mining_income' = WrapU64(total)
    /\ events' = events + 1
    /\ UNCHANGED <<lock, tasks, probe, key_store, response, ws, signed, overflow_checks, state, now, sync_pc,
                   last_synced_entropy, current_entropy, request, sent,
                   net_calls, sync_event, nonce_counter, last_call>>

\* update_entropy(total_income as i64)
MiningApply ==
    /\ mining_pc = "apply"
    /\ LET delta == AsI64(mining_income)
           r == update_entropy(state, delta, now)
       IN  /\ state' = r.state
           /\ snapshot' = SnapshotAfterMutation(snapshot, r.state)
           /\ mining_pc' = IF r.result = "panic" THEN "dead" ELSE "log"
           /\ last_call' = [op |-> "update_entropy", args |-> <<delta>>,
                            result |-> r.result]
    /\ UNCHANGED <<lock, tasks, probe, key_store, response, ws, signed, overflow_checks, now, events, mining_income,
                   sync_pc, last_synced_entropy, current_entropy,
                   request, sent, net_calls, sync_event, nonce_counter>>

\* The second get_snapshot and the log lines; the iteration ends and its
\* snapshots are dropped.
MiningLog ==
    /\ mining_pc = "log"
    /\ mining_pc' = "idle"
    /\ snapshot' = None
    /\ UNCHANGED <<lock, tasks, probe, key_store, response, ws, signed, overflow_checks, state, now, events,
                   mining_income, sync_pc, last_synced_entropy,
                   current_entropy, request, sent, net_calls, sync_event,
                   nonce_counter, last_call>>

(***************************************************************************)
(* src/network/probe.rs and src/daemon/mod.rs: the network probe loop      *)
(***************************************************************************)
RECURSIVE SumSeq(_)
SumSeq(seq) == IF seq = <<>> THEN 0 ELSE Head(seq) + SumSeq(Tail(seq))

\* The step function of the comment above the code's thresholds: 1.5 below
\* 30ms, 1.0 around 100ms, 0.1 above 500ms, without the 1.2 band.
calculate_network_quality_NoBand(latencies) ==
    LET n == Len(latencies)
        sum == SumSeq(latencies)
    IN  IF n = 0 THEN 1
        ELSE IF sum < 30 * n THEN 15
        ELSE IF sum < 200 * n THEN 10
        ELSE IF sum < 500 * n THEN 5
        ELSE 1

\* NetworkProbe::calculate_network_quality, in tenths: a step function of
\* the mean latency.  The mean of no latencies is 0.0 / 0.0 = NaN, which is
\* below no threshold.
calculate_network_quality(latencies) ==
    LET n == Len(latencies)
        sum == SumSeq(latencies)
    IN  IF n = 0 THEN 1
        ELSE IF sum < 30 * n THEN 15
        ELSE IF sum < 100 * n THEN 12
        ELSE IF sum < 200 * n THEN 10
        ELSE IF sum < 500 * n THEN 5
        ELSE 1

\* ping_anchor's loop: for i in 0..3
Samples == 3
\* the latency ping_anchor returns when no sample succeeded, in milliseconds
SentinelLatency == 999

\* The ping_once calls ping_anchor makes: none when anchor.ip does not parse,
\* otherwise one per sample; outcomes[i] is Some(milliseconds) or None for a
\* failed or timed-out ping.
PingsMade(anchor, outcomes) ==
    IF ~anchor.ip_parses THEN <<>> ELSE SubSeq(outcomes, 1, Samples)

\* results: the latencies of the Ok samples, in the order taken
PingResults(pings) ==
    LET ok == SelectSeq(pings, LAMBDA p : p # None)
    IN  [i \in 1..Len(ok) |-> Unwrap(ok[i])]

\* NetworkProbe::ping_anchor: results.sort_by(partial_cmp), then
\* results[results.len() / 2] (0-based).
ping_anchor(anchor, outcomes) ==
    IF ~anchor.ip_parses THEN SentinelLatency
    ELSE LET results == PingResults(PingsMade(anchor, outcomes))
         IN  IF results = <<>> THEN SentinelLatency
             ELSE SortSeq(results, <)[(Len(results) \div 2) + 1]

\* A build_latency_vector that gives up at an anchor without an answer.
build_latency_vector_Abort(anchors, outcomes) ==
    IF \E i \in 1..Len(anchors) :
           ping_anchor(anchors[i], outcomes[i]) = SentinelLatency
    THEN [result |-> "Err", data |-> <<>>]
    ELSE [result |-> "Ok",
          data |-> [i \in 1..Len(anchors) |->
                       ping_anchor(anchors[i], outcomes[i])]]

\* NetworkProbe::build_latency_vector: one ping_anchor per configured
\* anchor, pushed in order; it has no failing path and returns Ok.
build_latency_vector(anchors, outcomes) ==
    [result |-> "Ok",
     data |-> [i \in 1..Len(anchors) |-> ping_anchor(anchors[i], outcomes[i])]]

\* One iteration of probe_network_loop with its anchors and ping outcomes:
\* build_latency_vector, then on Ok calculate_network_quality and
\* update_network_quality, on Err only a log line.
ProbeNetworkTick(anchors, outcomes) ==
    LET vector == build_latency_vector(anchors, outcomes)
        quality == calculate_network_quality(vector.data)
    IN  /\ probe' = [anchors |-> anchors,
                     pings |-> [i \in 1..Len(anchors) |->
                                   PingsMade(anchors[i], outcomes[i])],
                     result |-> vector.result,
                     data |-> vector.data]
        /\ IF vector.result = "Ok"
           THEN /\ state' = update_network_quality(state, quality)
                /\ last_call' = [op |-> "update_network_quality",
                                 args |-> <<quality>>, result |-> "Ok"]
           ELSE /\ state' = state
                /\ last_call' = [op |-> "probe_network_loop",
                                 args |-> <<>>, result |-> "Err"]
        /\ UNCHANGED <<lock, tasks, key_store, snapshot, response, ws, signed,
                       overflow_checks, now, events, mining_pc, mining_income,
                       sync_pc, last_synced_entropy, current_entropy, request,
                       sent, net_calls, sync_event, nonce_counter>>

\* ticker.tick(), build_latency_vector(), calculate_network_quality and
\* update_network_quality.
ProbeTick(latencies) ==
    /\ ProcessAlive
    /\ events < MaxEvents
    /\ events' = events + 1
    /\ LET quality == calculate_network_quality(latencies)
       IN  /\ state' = update_network_quality(state, quality)
           /\ last_call' = [op |-> "update_network_quality",
                            args |-> <<quality>>, result |-> "Ok"]
    /\ snapshot' = SnapshotAfterMutation(snapshot, state')
    /\ UNCHANGED <<lock, tasks, probe, key_store, response, ws, signed, overflow_checks, now, mining_pc,
                   mining_income, sync_pc, last_synced_entropy,
                   current_entropy, request, sent, net_calls, sync_event,
                   nonce_counter>>

(***************************************************************************)
(* src/grpc/service.rs: GameServiceImpl                                    *)
(***************************************************************************)
\* The cooldown_seconds of a status response: the seconds left while
\* cooldown_ends lies after the clock reading, otherwise absent.
CooldownSeconds_Inclusive(s, t) ==
    IF s.player.defense.cooldown_ends # None
           /\ Unwrap(s.player.defense.cooldown_ends) >= t
    THEN Some(Unwrap(s.player.defense.cooldown_ends) - t)
    ELSE None

CooldownSeconds(s, t) ==
    IF s.player.defense.cooldown_ends # None
           /\ Unwrap(s.player.defense.cooldown_ends) > t
    THEN Some(Unwrap(s.player.defense.cooldown_ends) - t)
    ELSE None

\* GameServiceImpl::get_status: one snapshot, projected into the response.
GrpcGetStatus ==
    /\ ProcessAlive
    /\ events < MaxEvents
    /\ events' = events + 1
    /\ LET taken == get_snapshot(state)
       IN  response' =
               [rpc |-> "GetStatus",
                player_id |-> taken.player.id,
                karma |-> taken.player.karma,
                entropy |-> taken.player.entropy,
                capacity |-> taken.player.capacity,
                yield_per_tick |-> calculate_yield(taken.player),
                defense |-> [l1 |-> taken.player.defense.l1,
                             l2 |-> taken.player.defense.l2,
                             l3 |-> taken.player.defense.l3,
                             cooldown_seconds |-> CooldownSeconds(taken, now)],
                network_quality |-> taken.player.network_quality,
                parasite_count |-> Len(taken.parasites),
                passive_income |-> taken.player.passive_income]
    /\ UNCHANGED <<lock, tasks, probe, key_store, snapshot, ws, signed, overflow_checks, state, now,
                   mining_pc, mining_income, sync_pc, last_synced_entropy,
                   current_entropy, request, sent, net_calls, sync_event,
                   nonce_counter, last_call>>

\* GameServiceImpl::update_defense.  A panic inside the store call unwinds
\* the handler: the caller gets no UpdateDefenseResponse.
GrpcUpdateDefense(defense_array) ==
    /\ ProcessAlive
    /\ events < MaxEvents
    /\ events' = events + 1
    /\ IF Len(defense_array) # 3
       THEN /\ last_call' = [op |-> "UpdateDefense", args |-> defense_array,
                             result |-> "NotThreeValues"]
            /\ response' =
                   [rpc |-> "UpdateDefense", fault |-> FALSE,
                    success |-> FALSE,
                    error |-> Some("Defense array must have exactly 3 values")]
            /\ UNCHANGED state
       ELSE LET r == update_defense(state, defense_array[1], defense_array[2],
                                    defense_array[3], now)
            IN  /\ state' = r.state
                /\ last_call' = [op |-> "update_defense",
                                 args |-> defense_array,
                                 result |-> r.result]
                /\ response' =
                       CASE r.result = "Ok" ->
                              [rpc |-> "UpdateDefense", fault |-> FALSE,
                               success |-> TRUE, error |-> None]
                         [] r.result = "panic" ->
                              [rpc |-> "UpdateDefense", fault |-> TRUE,
                               success |-> FALSE, error |-> None]
                         [] OTHER ->
                              [rpc |-> "UpdateDefense", fault |-> FALSE,
                               success |-> FALSE, error |-> Some(r.error)]
    /\ snapshot' = SnapshotAfterMutation(snapshot, state')
    /\ UNCHANGED <<lock, tasks, probe, key_store, ws, signed, overflow_checks, now, mining_pc, mining_income,
                   sync_pc, last_synced_entropy, current_entropy,
                   request, sent, net_calls, sync_event, nonce_counter>>

(***************************************************************************)
(* src/sync/mod.rs: start_sync_loop                                        *)
(***************************************************************************)
\* interval.tick(), the read of entropy, the delta, and either `continue` or
\* create_and_sign and the send of sync_to_server.
SyncTick ==
    /\ ProcessAlive
    /\ sync_pc = "idle"
    /\ events < MaxEvents
    /\ events' = events + 1
    /\ LET entropy == AsI64(state.player.entropy)
           difference == entropy - last_synced_entropy
           entropy_delta == WrapI64(difference)
           signed_request ==
               create_and_sign(DeviceId, entropy_delta, 10, now, SyncIdentity,
                               NewNonce(nonce_counter), now)
       IN  IF overflow_checks /\ I64Overflows(difference)
           THEN /\ sync_pc' = "dead"
                /\ sync_event' = [kind |-> "panic", retry |-> FALSE, warning |-> FALSE]
                /\ UNCHANGED <<lock, tasks, probe, key_store, current_entropy, request, sent, net_calls,
                               nonce_counter, signed>>
           ELSE IF SkipSync(entropy_delta)
           THEN /\ sync_event' = [kind |-> "skip", retry |-> FALSE, warning |-> FALSE]
                /\ current_entropy' = entropy
                /\ UNCHANGED <<lock, tasks, probe, key_store, sync_pc, request, sent, net_calls, nonce_counter,
                               signed>>
           ELSE /\ sync_pc' = "sending"
                /\ current_entropy' = entropy
                /\ request' = Some(signed_request)
                /\ sent' = Some(SyncHttpRequest(ServerUrl, signed_request))
                /\ signed' = signed \cup
                                {SyncHttpRequest(ServerUrl, signed_request)}
                /\ net_calls' = net_calls + 1
                /\ nonce_counter' = nonce_counter + 1
                /\ sync_event' = [kind |-> "send",
                                  retry |-> sync_event.kind = "err",
                                  warning |-> FALSE]
    /\ UNCHANGED <<lock, tasks, probe, key_store, snapshot, response, ws, overflow_checks, state, now, mining_pc,
                   mining_income, last_synced_entropy, last_call>>

\* Ok(response): update_karma(response.device_karma as u64), the warning is
\* logged, last_synced_entropy = current_entropy.
SyncOk(device_karma, warning) ==
    /\ ProcessAlive
    /\ sync_pc = "sending"
    /\ LET r == update_karma(state, AsU64(device_karma))
       IN  /\ state' = r.state
           /\ last_call' = [op |-> "update_karma",
                            args |-> <<AsU64(device_karma)>>,
                            result |-> r.result]
           /\ IF r.result = "panic"
              THEN /\ sync_pc' = "dead"
                   /\ UNCHANGED last_synced_entropy
              ELSE /\ sync_pc' = "idle"
                   /\ last_synced_entropy' =
                          AdvanceBaseline(last_synced_entropy, current_entropy)
    /\ request' = NoRequest
    /\ sent' = None
    /\ sync_event' = [kind |-> "ok", retry |-> FALSE, warning |-> warning]
    /\ snapshot' = SnapshotAfterMutation(snapshot, state')
    /\ UNCHANGED <<lock, tasks, probe, key_store, response, ws, signed, overflow_checks, now, events, mining_pc, mining_income,
                   current_entropy, net_calls, nonce_counter>>

\* Err(e): logged, the loop goes on.
SyncErr(cause) ==
    /\ ProcessAlive
    /\ sync_pc = "sending"
    /\ sync_pc' = "idle"
    /\ last_synced_entropy' =
           BaselineAfterFailure(last_synced_entropy, current_entropy)
    /\ request' = NoRequest
    /\ sent' = None
    /\ sync_event' = [kind |-> "err", retry |-> FALSE, warning |-> FALSE]
    /\ UNCHANGED <<lock, tasks, probe, key_store, snapshot, response, ws, signed, overflow_checks, state, now, events, mining_pc,
                   mining_income, current_entropy, net_calls,
                   nonce_counter, last_call>>

Next ==
    \/ \E d \in ClockSteps : AdvanceClock(d)
    \/ MiningTick
    \/ MiningApply
    \/ MiningLog
    \/ \E latencies \in ProbeLatencies : ProbeTick(latencies)
    \/ GrpcGetStatus
    \/ \E defense_array \in DefenseArrays : GrpcUpdateDefense(defense_array)
    \/ SyncTick
    \/ \E device_karma \in ResponseKarma, warning \in BOOLEAN :
          SyncOk(device_karma, warning)
    \/ \E cause \in SyncFailures : SyncErr(cause)

Spec == Init /\ [][Next]_vars

(***************************************************************************)
(* update_entropy as a function of its inputs: every starting entropy,     *)
(* capacity and delta of the sets below, applied once.                     *)
(***************************************************************************)
\* KarmaCapacity(U64Max) is the capacity update_karma stores for the karma
\* the sync task casts from device_karma = -1 in a build without overflow
\* checks.
EntropyInputs == {0, 1, 49, 9000, 10000, KarmaCapacity(U64Max), U64Max}
CapacityInputs == {0, 100, 10000, KarmaCapacity(U64Max)}
DeltaInputs == {I64Min, -9001, -1, 0, 1, 50, 2000, I64Max}

InitEntropy ==
    /\ overflow_checks \in BOOLEAN
    /\ \E e \in EntropyInputs, c \in CapacityInputs :
          state = [StateManagerNew(DeviceId, 100) EXCEPT
                      !.player.entropy = e, !.player.capacity = c]
    /\ now = 0
    /\ events = 0
    /\ mining_pc = "idle"
    /\ mining_income = 0
    /\ sync_pc = "idle"
    /\ last_synced_entropy = 0
    /\ current_entropy = 0
    /\ request = NoRequest
    /\ sent = None
    /\ net_calls = 0
    /\ sync_event = [kind |-> "none", retry |-> FALSE, warning |-> FALSE]
    /\ nonce_counter = 0
    /\ last_call = NoCall
    /\ signed = {}
    /\ ws = NoConnection
    /\ snapshot = None
    /\ response = NoResponse
    /\ key_store = NoKeyStore
    /\ probe = NoProbe
    /\ lock = NoLock
    /\ tasks = NoTasks

ApplyUpdateEntropy(delta) ==
    /\ last_call = NoCall
    /\ LET r == update_entropy(state, delta, now)
       IN  /\ state' = r.state
           /\ last_call' = [op |-> "update_entropy", args |-> <<delta>>,
                            result |-> r.result]
    /\ UNCHANGED <<lock, tasks, probe, key_store, snapshot, response, ws, signed, overflow_checks, now, events, mining_pc, mining_income,
                   sync_pc, last_synced_entropy, current_entropy, request,
                   sent, net_calls, sync_event, nonce_counter>>

NextEntropy == \E delta \in DeltaInputs : ApplyUpdateEntropy(delta)

SpecEntropy == InitEntropy /\ [][NextEntropy]_vars

(***************************************************************************)
(* update_network_quality as a function of its inputs: every starting      *)
(* quality the probe can have stored, on players of either karma and       *)
(* entropy, and every quality of the sets below, applied once.  Values are *)
(* tenths; NaN is the f64 NaN.                                             *)
(***************************************************************************)
QualityStarts == {1, 5, 10, 12, 15}
QualityInputs == {NaN, -10, 0, 1, 2, 5, 10, 12, 14, 15, 16, 1000}
\* the entropy the player has when the probe reports
QualityEntropies == {0, 50}

InitQuality ==
    /\ overflow_checks \in BOOLEAN
    /\ \E q \in QualityStarts, karma \in InitKarma, e \in QualityEntropies :
          state = [StateManagerNew(DeviceId, karma) EXCEPT
                      !.player.network_quality = q, !.player.entropy = e]
    /\ now = 0
    /\ events = 0
    /\ mining_pc = "idle"
    /\ mining_income = 0
    /\ sync_pc = "idle"
    /\ last_synced_entropy = 0
    /\ current_entropy = 0
    /\ request = NoRequest
    /\ sent = None
    /\ net_calls = 0
    /\ sync_event = [kind |-> "none", retry |-> FALSE, warning |-> FALSE]
    /\ nonce_counter = 0
    /\ last_call = NoCall
    /\ signed = {}
    /\ ws = NoConnection
    /\ snapshot = None
    /\ response = NoResponse
    /\ key_store = NoKeyStore
    /\ probe = NoProbe
    /\ lock = NoLock
    /\ tasks = NoTasks

ApplyUpdateNetworkQuality(quality) ==
    /\ last_call = NoCall
    /\ state' = update_network_quality(state, quality)
    /\ last_call' = [op |-> "update_network_quality", args |-> <<quality>>,
                     result |-> "Ok"]
    /\ UNCHANGED <<lock, tasks, probe, key_store, snapshot, response, ws, signed, overflow_checks, now,
                   events, mining_pc, mining_income, sync_pc,
                   last_synced_entropy, current_entropy, request, sent,
                   net_calls, sync_event, nonce_counter>>

NextQuality == \E quality \in QualityInputs : ApplyUpdateNetworkQuality(quality)

SpecQuality == InitQuality /\ [][NextQuality]_vars

(***************************************************************************)
(* The probe loop alone: its first iteration pings the configured anchors  *)
(* and meets any mixture of answers, failures and timeouts.                *)
(***************************************************************************)
\* config.network.anchors: each anchor's ip either parses as an IpAddr or not
AnchorLists ==
    {<<>>} \cup
    {<<[id |-> "a1", ip_parses |-> v]>> : v \in BOOLEAN} \cup
    {<<[id |-> "a1", ip_parses |-> v], [id |-> "a2", ip_parses |-> w]>> :
        v \in BOOLEAN, w \in BOOLEAN}
\* what one ping_once returns: Err, or Ok(duration.as_millis()); the second
\* anchor is the farther one
PingOutcomes(anchor) ==
    IF anchor.id = "a1" THEN {None, Some(20), Some(30), Some(150)}
    ELSE {None, Some(50), Some(250), Some(850)}
PingRuns(anchor) == [1..Samples -> PingOutcomes(anchor)]

\* the outcomes of a tick's ping_once calls, anchor by anchor
TickOutcomes(anchors) ==
    CASE Len(anchors) = 0 -> {<<>>}
      [] Len(anchors) = 1 -> {<<r>> : r \in PingRuns(anchors[1])}
      [] Len(anchors) = 2 -> {<<r, t>> : r \in PingRuns(anchors[1]),
                                          t \in PingRuns(anchors[2])}

NextProbe ==
    /\ probe = NoProbe
    /\ \E anchors \in AnchorLists :
          \E outcomes \in TickOutcomes(anchors) :
              ProbeNetworkTick(anchors, outcomes)

SpecProbe == Init /\ [][NextProbe]_vars

(***************************************************************************)
(* The store under any sequence of its operations: add_parasite,           *)
(* update_entropy, update_defense, update_karma and update_network_quality *)
(* applied in any order, MaxStoreOps times.                                *)
(***************************************************************************)
MaxStoreOps == 3
\* Parasite values: node_id and yield_per_tick (tenths)
ParasiteInputs ==
    {[node_id |-> n, yield_per_tick |-> y] : n \in {"n1", "n2"}, y \in {0, 5, 15}}
StoreDeltas == {-1, 50}
StoreKarma == {2}
StoreQualities == {12}

UnchangedByStoreOp ==
    UNCHANGED <<lock, tasks, probe, key_store, snapshot, response, ws, signed, overflow_checks, now,
                mining_pc, mining_income, sync_pc, last_synced_entropy,
                current_entropy, request, sent, net_calls, sync_event,
                nonce_counter>>

ApplyAddParasite(parasite) ==
    /\ events < MaxStoreOps
    /\ events' = events + 1
    /\ state' = add_parasite(state, parasite)
    /\ last_call' = [op |-> "add_parasite", args |-> <<parasite>>,
                     result |-> "Ok"]
    /\ UnchangedByStoreOp

ApplyStoreEntropy(delta) ==
    /\ events < MaxStoreOps
    /\ events' = events + 1
    /\ LET r == update_entropy(state, delta, now)
       IN  /\ state' = r.state
           /\ last_call' = [op |-> "update_entropy", args |-> <<delta>>,
                            result |-> r.result]
    /\ UnchangedByStoreOp

ApplyStoreDefense(arr) ==
    /\ events < MaxStoreOps
    /\ events' = events + 1
    /\ Len(arr) = 3
    /\ LET r == update_defense(state, arr[1], arr[2], arr[3], now)
       IN  /\ state' = r.state
           /\ last_call' = [op |-> "update_defense", args |-> arr,
                            result |-> r.result]
    /\ UnchangedByStoreOp

ApplyStoreKarma(new_karma) ==
    /\ events < MaxStoreOps
    /\ events' = events + 1
    /\ LET r == update_karma(state, new_karma)
       IN  /\ state' = r.state
           /\ last_call' = [op |-> "update_karma", args |-> <<new_karma>>,
                            result |-> r.result]
    /\ UnchangedByStoreOp

ApplyStoreQuality(quality) ==
    /\ events < MaxStoreOps
    /\ events' = events + 1
    /\ state' = update_network_quality(state, quality)
    /\ last_call' = [op |-> "update_network_quality", args |-> <<quality>>,
                     result |-> "Ok"]
    /\ UnchangedByStoreOp

NextStore ==
    \/ \E parasite \in ParasiteInputs : ApplyAddParasite(parasite)
    \/ \E delta \in StoreDeltas : ApplyStoreEntropy(delta)
    \/ \E arr \in DefenseArrays : ApplyStoreDefense(arr)
    \/ \E new_karma \in StoreKarma : ApplyStoreKarma(new_karma)
    \/ \E quality \in StoreQualities : ApplyStoreQuality(quality)

SpecStore == Init /\ [][NextStore]_vars

(***************************************************************************)
(* The store's RwLock (src/state.rs) with concurrent callers.  Every store *)
(* operation awaits the lock, runs its body without a further await and    *)
(* drops the guard on return or unwind.  Two callers of the StateManager   *)
(* and the sync task each make their calls once; a step is one poll of a   *)
(* task's future.                                                          *)
(***************************************************************************)
Callers == {"caller-1", "caller-2"}
LockTasks == Callers \cup {"sync"}

\* what a caller asks of the store
CallerRequests(t) ==
    IF t = "caller-1"
    THEN {[op |-> "update_entropy", args |-> <<80>>],
          [op |-> "update_defense", args |-> <<1, 2, 3>>],
          [op |-> "get_snapshot", args |-> <<>>]}
    ELSE {[op |-> "update_entropy", args |-> <<150>>],
          [op |-> "update_defense", args |-> <<10, 0, 0>>]}

\* the balance the callers find
LockEntropy == 50

IdleTask ==
    [pc |-> "idle", op |-> "none", args |-> <<>>, seen |-> None,
     result |-> "none"]

InitLock ==
    /\ overflow_checks \in BOOLEAN
    /\ \E karma \in InitKarma :
          state = [StateManagerNew(DeviceId, karma) EXCEPT
                      !.player.entropy = LockEntropy]
    /\ now = 0
    /\ events = 0
    /\ mining_pc = "idle"
    /\ mining_income = 0
    /\ sync_pc = "idle"
    /\ last_synced_entropy = 0
    /\ current_entropy = 0
    /\ request = NoRequest
    /\ sent = None
    /\ net_calls = 0
    /\ sync_event = [kind |-> "none", retry |-> FALSE, warning |-> FALSE]
    /\ nonce_counter = 0
    /\ last_call = NoCall
    /\ signed = {}
    /\ ws = NoConnection
    /\ snapshot = None
    /\ response = NoResponse
    /\ key_store = NoKeyStore
    /\ probe = NoProbe
    /\ lock = NoLock
    /\ tasks = [t \in LockTasks |-> IdleTask]

\* self.state.read() for get_snapshot and the sync task's read of entropy,
\* self.state.write() for the update_ operations
LockMode(op) ==
    IF op \in {"get_snapshot", "read_entropy"} THEN "read" ELSE "write"

\* A lock that lets every caller in.
CanLock_NoExclusion(l, mode) == TRUE

\* tokio::sync::RwLock: a writer needs the lock free, a reader needs it free
\* of writers.
CanLock(l, mode) ==
    IF mode = "write" THEN l.writers = {} /\ l.readers = {}
    ELSE l.writers = {}

Locked(l, t, mode) ==
    IF mode = "write" THEN [l EXCEPT !.writers = @ \cup {t}]
    ELSE [l EXCEPT !.readers = @ \cup {t}]

\* A sync task that keeps its read guard while it signs and sends.
Released_SyncKeepsGuard(l, t, op) ==
    IF op = "read_entropy" THEN l
    ELSE [writers |-> l.writers \ {t}, readers |-> l.readers \ {t}]

\* The guard is dropped at the end of the operation (state.rs) or of the
\* block that took it (sync/mod.rs:39-44), also when the body unwinds.
Released(l, t, op) ==
    [writers |-> l.writers \ {t}, readers |-> l.readers \ {t}]

\* The body of a store operation run on the state s the task holds under
\* its guard.
StoreBody(op, args, s, t) ==
    CASE op = "update_entropy" ->
             [state |-> update_entropy(s, args[1], t).state,
              result |-> update_entropy(s, args[1], t).result]
      [] op = "update_defense" ->
             [state |-> update_defense(s, args[1], args[2], args[3], t).state,
              result |-> update_defense(s, args[1], args[2], args[3], t).result]
      [] op = "update_karma" ->
             [state |-> update_karma(s, args[1]).state,
              result |-> update_karma(s, args[1]).result]
      [] OTHER -> [state |-> s, result |-> "Ok"]

UnchangedByLockStep ==
    UNCHANGED <<probe, key_store, snapshot, response, ws, signed,
                overflow_checks, now, events, mining_pc, mining_income,
                sync_pc, request, sent, net_calls, sync_event, nonce_counter,
                last_call>>

\* A caller enters a store operation and awaits the lock.
LockCall(t, req) ==
    /\ tasks[t].pc = "idle"
    /\ tasks' = [tasks EXCEPT ![t] = [IdleTask EXCEPT !.pc = "want",
                                                      !.op = req.op,
                                                      !.args = req.args]]
    /\ UNCHANGED <<lock, state, current_entropy, last_synced_entropy>>
    /\ UnchangedByLockStep

\* The sync task's tick: it awaits the read lock.
LockSyncTick ==
    /\ tasks["sync"].pc = "idle"
    /\ tasks' = [tasks EXCEPT !["sync"] = [IdleTask EXCEPT !.pc = "want",
                                                           !.op = "read_entropy"]]
    /\ UNCHANGED <<lock, state, current_entropy, last_synced_entropy>>
    /\ UnchangedByLockStep

\* read().await or write().await resolves: the task holds the guard and
\* reads the state behind it.
LockAcquire(t) ==
    /\ tasks[t].pc = "want"
    /\ CanLock(lock, LockMode(tasks[t].op))
    /\ lock' = Locked(lock, t, LockMode(tasks[t].op))
    /\ tasks' = [tasks EXCEPT ![t].pc = "in", ![t].seen = Some(state)]
    /\ UNCHANGED <<state, current_entropy, last_synced_entropy>>
    /\ UnchangedByLockStep

\* The body writes its result and the guard is dropped.  The sync task goes
\* on to sign and send after its read (pc "io": the network call is
\* outstanding), and sets last_synced_entropy after update_karma returned; a
\* task whose body panics is gone.
LockComplete(t) ==
    /\ tasks[t].pc = "in"
    /\ LET mine == tasks[t]
           r == StoreBody(mine.op, mine.args, Unwrap(mine.seen), now)
       IN  /\ state' = IF LockMode(mine.op) = "write" THEN r.state ELSE state
           /\ lock' = Released(lock, t, mine.op)
           /\ tasks' = [tasks EXCEPT
                           ![t].result = r.result,
                           ![t].pc = CASE r.result = "panic" -> "dead"
                                       [] mine.op = "read_entropy" -> "io"
                                       [] OTHER -> "done"]
           /\ current_entropy' =
                  IF mine.op = "read_entropy"
                  THEN AsI64(Unwrap(mine.seen).player.entropy)
                  ELSE current_entropy
           /\ last_synced_entropy' =
                  IF t = "sync" /\ mine.op = "update_karma" /\ r.result = "Ok"
                  THEN AdvanceBaseline(last_synced_entropy, current_entropy)
                  ELSE last_synced_entropy
    /\ UnchangedByLockStep

\* sync_to_server returns Ok(response): the sync task calls update_karma.
LockSyncReply(device_karma) ==
    /\ tasks["sync"].pc = "io"
    /\ tasks' = [tasks EXCEPT !["sync"].pc = "want",
                              !["sync"].op = "update_karma",
                              !["sync"].args = <<AsU64(device_karma)>>,
                              !["sync"].seen = None]
    /\ UNCHANGED <<lock, state, current_entropy, last_synced_entropy>>
    /\ UnchangedByLockStep

\* sync_to_server returns Err: the tick ends without a store call.
LockSyncFailed ==
    /\ tasks["sync"].pc = "io"
    /\ tasks' = [tasks EXCEPT !["sync"].pc = "done",
                              !["sync"].result = "Err"]
    /\ UNCHANGED <<lock, state, current_entropy, last_synced_entropy>>
    /\ UnchangedByLockStep

NextLock ==
    \/ \E t \in Callers : \E req \in CallerRequests(t) : LockCall(t, req)
    \/ LockSyncTick
    \/ \E t \in LockTasks : LockAcquire(t)
    \/ \E t \in LockTasks : LockComplete(t)
    \/ \E device_karma \in ResponseKarma : LockSyncReply(device_karma)
    \/ LockSyncFailed

SpecLock == InitLock /\ [][NextLock]_vars

\* The runtime polls a task that can go on: one that holds the guard runs
\* its body, one that awaits the lock gets it once it is free.
LockFairness ==
    \A t \in LockTasks :
        WF_vars(LockAcquire(t)) /\ WF_vars(LockComplete(t))

SpecLockFair == InitLock /\ [][NextLock]_vars /\ LockFairness

(***************************************************************************)
(* src/device/identity.rs: load_or_generate called again and again on one  *)
(* key path, whatever the path holds at the start.                         *)
(***************************************************************************)
MaxLoads == 3
\* what rand::random() draws
RandomKeys == {Bytes(KeyLen, 1), Bytes(KeyLen, 2)}
\* what the key path holds at the start: nothing, a key, or a file of
\* another length
KeyFiles ==
    {None, Some(Bytes(KeyLen, 7)), Some(<<>>), Some(Bytes(KeyLen - 1, 7)),
     Some(Bytes(KeyLen + 1, 7))}
SaveOutcomes == {"ok", "write failed", "permissions failed"}

InitIdentity ==
    /\ \E file \in KeyFiles : key_store = [NoKeyStore EXCEPT !.file = file]
    /\ probe = NoProbe
    /\ lock = NoLock
    /\ tasks = NoTasks
    /\ overflow_checks = FALSE
    /\ state = StateManagerNew(DeviceId, 100)
    /\ now = 0
    /\ events = 0
    /\ mining_pc = "idle"
    /\ mining_income = 0
    /\ sync_pc = "idle"
    /\ last_synced_entropy = 0
    /\ current_entropy = 0
    /\ request = NoRequest
    /\ sent = None
    /\ net_calls = 0
    /\ sync_event = [kind |-> "none", retry |-> FALSE, warning |-> FALSE]
    /\ nonce_counter = 0
    /\ last_call = NoCall
    /\ signed = {}
    /\ ws = NoConnection
    /\ snapshot = None
    /\ response = NoResponse

\* One call of load_or_generate; the caller keeps what it returns.
LoadOrGenerate(random, read_ok, outcome) ==
    /\ Len(key_store.returned) < MaxLoads
    /\ LET r == load_or_generate(key_store, random, read_ok, outcome)
       IN  key_store' = [r.store EXCEPT !.returned = Append(@, r.result)]
    /\ UNCHANGED <<lock, tasks, probe, overflow_checks, state, now, events, mining_pc,
                   mining_income, sync_pc, last_synced_entropy,
                   current_entropy, request, sent, net_calls, sync_event,
                   nonce_counter, last_call, signed, ws, snapshot, response>>

NextIdentity ==
    \E random \in RandomKeys, read_ok \in BOOLEAN, outcome \in SaveOutcomes :
        LoadOrGenerate(random, read_ok, outcome)

SpecIdentity == InitIdentity /\ [][NextIdentity]_vars

(***************************************************************************)
(* src/combat/client.rs and src/radar/client.rs: the signed HTTP clients.  *)
(***************************************************************************)
MaxSigned == 2

\* serde_json::Value: the numbers and strings the json! bodies hold.
JsonNumber(n) == [kind |-> "num", num |-> n, str |-> ""]
JsonString(x) == [kind |-> "str", num |-> 0, str |-> x]

\* Value::to_string() of a scalar.  The strings of TargetIds hold no
\* character that JSON escapes.
ValueToString(v) ==
    IF v.kind = "num" THEN ToString(v.num) ELSE "\"" \o v.str \o "\""

RECURSIVE MembersToString(_)
MembersToString(members) ==
    IF members = <<>>
    THEN ""
    ELSE "\"" \o members[1][1] \o "\":" \o ValueToString(members[1][2])
            \o (IF Len(members) > 1 THEN "," ELSE "")
            \o MembersToString(Tail(members))

\* Value::to_string() of an object: compact, members in the map's key order.
to_string(members) == "{" \o MembersToString(members) \o "}"

\* The first position of pat in s, or 0.
Find(s, pat) ==
    LET starts == {i \in 1..(Len(s) - Len(pat) + 1) :
                      SubSeq(s, i, i + Len(pat) - 1) = pat}
    IN  IF starts = {} THEN 0
        ELSE CHOOSE i \in starts : \A j \in starts : i <= j

\* url.split("/api/").nth(1).unwrap_or("")
SplitApiNth1(url) ==
    LET pat == "/api/"
        i == Find(url, pat)
        rest == SubSeq(url, i + Len(pat), Len(url))
        j == Find(rest, pat)
    IN  IF i = 0 THEN ""
        ELSE IF j = 0 THEN rest
        ELSE SubSeq(rest, 1, j - 1)

\* hex::encode(self.private_key.sign(message).to_bytes())
sign_hex(private_key, message) ==
    [encoding |-> "hex", signature |-> sign(private_key, message)]

\* CombatClient::signed_post: None when the clock is before the epoch,
\* otherwise the request that is sent.
signed_post(device_id, private_key, url, body, timestamp, nonce) ==
    IF timestamp < 0 THEN None
    ELSE LET body_str == to_string(body)
             message == "POST|" \o SplitApiNth1(url) \o "|" \o body_str
                            \o "|" \o ToString(timestamp) \o "|" \o nonce
         IN  Some([signer |-> "combat",
                   method |-> "POST",
                   url |-> url,
                   headers |-> [device_id |-> device_id,
                                signature |-> sign_hex(private_key, message),
                                timestamp |-> ToString(timestamp),
                                nonce |-> nonce],
                   body |-> body_str])

\* CombatClient::signed_get
signed_get(device_id, private_key, url, timestamp, nonce) ==
    IF timestamp < 0 THEN None
    ELSE LET message == "GET|" \o SplitApiNth1(url) \o "||"
                            \o ToString(timestamp) \o "|" \o nonce
         IN  Some([signer |-> "combat",
                   method |-> "GET",
                   url |-> url,
                   headers |-> [device_id |-> device_id,
                                signature |-> sign_hex(private_key, message),
                                timestamp |-> ToString(timestamp),
                                nonce |-> nonce],
                   body |-> ""])

\* RadarClient::signed_post
radar_signed_post(device_id, private_key, url, body, timestamp, nonce) ==
    IF timestamp < 0 THEN None
    ELSE LET body_str == to_string(body)
             message == "POST|" \o SplitApiNth1(url) \o "|" \o body_str
                            \o "|" \o ToString(timestamp) \o "|" \o nonce
         IN  Some([signer |-> "radar",
                   method |-> "POST",
                   url |-> url,
                   headers |-> [device_id |-> device_id,
                                signature |-> sign_hex(private_key, message),
                                timestamp |-> ToString(timestamp),
                                nonce |-> nonce],
                   body |-> body_str])

(***************************************************************************)
(* The signers as functions of their inputs: each action is one call of a  *)
(* signer, with the clock reading and the nonce drawn from small sets so   *)
(* that two calls can agree on any of the signed fields.                   *)
(***************************************************************************)
ApiBase == ServerUrl
PrivateKey == SyncIdentity
DeviceIds == {"dev-1", "d|1"}
TargetIds == {"t-1", "t|1"}
\* Unix timestamps the clock supplies: seconds after the epoch
Timestamps == {1, 300}
Nonces == {"uuid-0", "uuid-1"}
EntropyDeltas == {5}
Qualities == {10, 12}
MaxDistances == {None, Some(100)}
DefenseConfigs == {[l1 |-> 1, l2 |-> 2, l3 |-> 3]}

\* A signer's request goes on the wire and into the log.
Send(http) ==
    /\ http # None
    /\ Cardinality(signed) < MaxSigned
    /\ signed' = signed \cup {Unwrap(http)}

\* start_sync_loop's create_and_sign and sync_to_server.
SignSync(device_id, entropy_delta, network_quality, timestamp, nonce) ==
    LET signed_request ==
            create_and_sign(device_id, entropy_delta, network_quality,
                            timestamp, SyncIdentity, nonce, timestamp)
    IN  /\ Send(Some(SyncHttpRequest(ServerUrl, signed_request)))
        /\ request' = Some(signed_request)
        /\ sent' = Some(SyncHttpRequest(ServerUrl, signed_request))
        /\ UNCHANGED <<lock, tasks, probe, key_store, snapshot, response, ws, overflow_checks, state, now, events, mining_pc,
                       mining_income, sync_pc, last_synced_entropy,
                       current_entropy, net_calls, sync_event, nonce_counter,
                       last_call>>

UnchangedBySigner ==
    UNCHANGED <<lock, tasks, probe, key_store, snapshot, response, ws, overflow_checks, state, now, events, mining_pc,
                mining_income, sync_pc, last_synced_entropy, current_entropy,
                request, sent, net_calls, sync_event, nonce_counter,
                last_call>>

\* CombatClient::configure_defense
configure_defense(config, timestamp, nonce) ==
    /\ Send(signed_post(DeviceId, PrivateKey,
                        ApiBase \o "/api/game/defense/configure",
                        <<(<<"l1", JsonNumber(config.l1)>>),
                          (<<"l2", JsonNumber(config.l2)>>),
                          (<<"l3", JsonNumber(config.l3)>>)>>,
                        timestamp, nonce))
    /\ UnchangedBySigner

\* CombatClient::get_defense_status
get_defense_status(timestamp, nonce) ==
    /\ Send(signed_get(DeviceId, PrivateKey,
                       ApiBase \o "/api/game/defense/status",
                       timestamp, nonce))
    /\ UnchangedBySigner

\* CombatClient::attack
attack(target_id, timestamp, nonce) ==
    /\ Send(signed_post(DeviceId, PrivateKey,
                        ApiBase \o "/api/game/battle/attack",
                        <<(<<"target_id", JsonString(target_id)>>)>>,
                        timestamp, nonce))
    /\ UnchangedBySigner

\* CombatClient::simulate_battle
simulate_battle(target_id, timestamp, nonce) ==
    /\ Send(signed_post(DeviceId, PrivateKey,
                        ApiBase \o "/api/game/battle/simulate",
                        <<(<<"target_id", JsonString(target_id)>>)>>,
                        timestamp, nonce))
    /\ UnchangedBySigner

\* RadarClient::scan
scan(max_distance, timestamp, nonce) ==
    /\ Send(radar_signed_post(DeviceId, PrivateKey,
                ApiBase \o "/api/game/radar/scan",
                <<(<<"cost_omega", JsonNumber(10)>>),
                  (<<"max_distance",
                     JsonNumber(IF max_distance = None THEN 5000
                                ELSE Unwrap(max_distance))>>)>>,
                timestamp, nonce))
    /\ UnchangedBySigner

NextSign ==
    \E timestamp \in Timestamps, nonce \in Nonces :
        \/ \E device_id \in DeviceIds, entropy_delta \in EntropyDeltas,
              network_quality \in Qualities :
                SignSync(device_id, entropy_delta, network_quality,
                         timestamp, nonce)
        \/ \E config \in DefenseConfigs :
                configure_defense(config, timestamp, nonce)
        \/ get_defense_status(timestamp, nonce)
        \/ \E target_id \in TargetIds : attack(target_id, timestamp, nonce)
        \/ \E target_id \in TargetIds :
                simulate_battle(target_id, timestamp, nonce)
        \/ \E max_distance \in MaxDistances :
                scan(max_distance, timestamp, nonce)

\* The signers do no integer arithmetic and read nothing of the game state:
\* one build and one starting karma.
InitSign == Init /\ ~overflow_checks /\ state.player.karma = 100

SpecSign == InitSign /\ [][NextSign]_vars

(***************************************************************************)
(* src/websocket/client.rs: WebSocketClient                                *)
(***************************************************************************)
MaxWsSteps == 5

\* What the server side of a connection can deliver to read.next(): text
\* frames by the type they decode to, the other frame kinds, a transport
\* error, and the end of the stream.
TextFrames ==
    {"AUTH_SUCCESS", "battle_result", "battle_attacked", "battle_attacked:abc",
     "mystery", "malformed"}
ServerFrames == TextFrames \cup {"Binary", "Close", "Error", "End"}

\* serde_json::from_str::<ServerMessage>(&text): an unknown type decodes to
\* the Unknown variant, text that is no message of a known shape fails.
ParseServerMessage(text) ==
    CASE text = "AUTH_SUCCESS" -> "AuthSuccess"
      [] text = "battle_result" -> "BattleResult"
      [] text \in {"battle_attacked", "battle_attacked:abc"} -> "BattleAttacked"
      [] text = "mystery" -> "Unknown"
      [] OTHER -> "Err"

\* data.attacker_id of a battle_attacked frame
AttackerId(text) ==
    IF text = "battle_attacked:abc" THEN "abc" ELSE "attacker-0001"

\* WebSocketClient::handle_message: what it does with a text frame.  The
\* battle_attacked arm formats &data.attacker_id[..8], which panics when the
\* id is shorter than 8 bytes.
handle_message(text) ==
    CASE ParseServerMessage(text) = "BattleResult" -> "notified"
      [] ParseServerMessage(text) = "BattleAttacked" ->
             IF Len(AttackerId(text)) < 8 THEN "panic" ELSE "notified"
      [] ParseServerMessage(text) = "Unknown" -> "logged unknown"
      [] ParseServerMessage(text) = "Err" -> "logged error"
      [] OTHER -> "ignored"

\* A signature made over one timestamp and returned next to another.
create_auth_signature_Stale(signing_key, timestamp, nonce) ==
    [timestamp |-> timestamp + 1,
     nonce |-> nonce,
     signature |-> sign_base64(signing_key,
                       "WS|/ws|AUTH|" \o ToString(timestamp) \o "|" \o nonce)]

\* A signature over a canonical message whose body component is empty.
create_auth_signature_EmptyBody(signing_key, timestamp, nonce) ==
    [timestamp |-> timestamp,
     nonce |-> nonce,
     signature |-> sign_base64(signing_key,
                       "WS|/ws||" \o ToString(timestamp) \o "|" \o nonce)]

\* WebSocketClient::create_auth_signature, given the clock reading and the
\* UUID it draws.
create_auth_signature(signing_key, timestamp, nonce) ==
    [timestamp |-> timestamp,
     nonce |-> nonce,
     signature |-> sign_base64(signing_key,
                       "WS|/ws|AUTH|" \o ToString(timestamp) \o "|" \o nonce)]

\* The AuthMessage connect_and_listen builds from it.
AuthMessage(device_id, auth) ==
    [type |-> "AUTH",
     device_id |-> device_id,
     timestamp |-> auth.timestamp,
     nonce |-> auth.nonce,
     signature |-> auth.signature]

\* An auth loop that takes every decodable text frame for the auth reply.
AuthLoopOutcome_AnyReply(frame) ==
    CASE frame \in TextFrames /\ ParseServerMessage(frame) # "Err" -> "authenticated"
      [] frame \in TextFrames -> "Authentication failed"
      [] frame = "Close" -> "Connection closed before authentication"
      [] frame = "Error" -> "WebSocket error"
      [] frame = "End" -> "Authentication timeout"
      [] OTHER -> "skipped"

\* An auth loop that skips a text frame it cannot parse.
AuthLoopOutcome_SkipUnparsable(frame) ==
    CASE frame \in TextFrames /\ ParseServerMessage(frame) = "AuthSuccess" -> "authenticated"
      [] frame \in TextFrames -> "skipped"
      [] frame = "Close" -> "Connection closed before authentication"
      [] frame = "Error" -> "WebSocket error"
      [] frame = "End" -> "Authentication timeout"
      [] OTHER -> "skipped"

\* One round of the loop that waits for the auth reply: what it does with
\* the frame it read.
AuthLoopOutcome(frame) ==
    CASE frame \in TextFrames /\ ParseServerMessage(frame) = "AuthSuccess" -> "authenticated"
      [] frame \in TextFrames /\ ParseServerMessage(frame) = "Err" -> "Authentication failed"
      [] frame \in TextFrames -> "skipped"
      [] frame = "Close" -> "Connection closed before authentication"
      [] frame = "Error" -> "WebSocket error"
      [] frame = "End" -> "Authentication timeout"
      [] OTHER -> "skipped"

UnchangedByWs ==
    UNCHANGED <<lock, tasks, probe, key_store, snapshot, response, overflow_checks, state, now, events, mining_pc,
                mining_income, sync_pc, last_synced_entropy, current_entropy,
                request, sent, net_calls, sync_event, last_call, signed>>

\* connect_and_listen is called; connect_async succeeds or fails.
WsConnect(ok) ==
    /\ ws.pc \in {"idle", "ended", "failed"}
    /\ ws.steps < MaxWsSteps
    /\ ws' = [pc |-> IF ok THEN "connected" ELSE "failed",
              sent |-> <<>>, frames |-> <<>>, handled |-> <<>>,
              result |-> IF ok THEN "none"
                         ELSE "Failed to connect to WebSocket server",
              steps |-> ws.steps + 1]
    /\ UNCHANGED nonce_counter
    /\ UnchangedByWs

\* create_auth_signature and write.send(Message::Text(auth_json)).
WsSendAuth(timestamp, ok) ==
    /\ ws.pc = "connected"
    /\ ws.steps < MaxWsSteps
    /\ LET auth == create_auth_signature(PrivateKey, timestamp,
                                         NewNonce(nonce_counter))
       IN  ws' = IF ok
                 THEN [ws EXCEPT !.pc = "auth_wait",
                                 !.sent = Append(@, AuthMessage(DeviceId, auth)),
                                 !.steps = @ + 1]
                 ELSE [ws EXCEPT !.pc = "failed",
                                 !.result = "send failed",
                                 !.steps = @ + 1]
    /\ nonce_counter' = nonce_counter + 1
    /\ UnchangedByWs

\* The loop that waits for the auth reply reads one frame.
WsAuthFrame(frame) ==
    /\ ws.pc = "auth_wait"
    /\ ws.steps < MaxWsSteps
    /\ LET outcome == AuthLoopOutcome(frame)
       IN  ws' = [ws EXCEPT
                     !.frames = Append(@, frame),
                     !.steps = @ + 1,
                     !.pc = CASE outcome = "authenticated" -> "listening"
                              [] outcome = "skipped" -> "auth_wait"
                              [] OTHER -> "failed",
                     !.result = IF outcome \in {"authenticated", "skipped"}
                                THEN @ ELSE outcome]
    /\ UNCHANGED nonce_counter
    /\ UnchangedByWs

\* The listen loop reads one frame: a text frame goes to handle_message; a
\* Close frame, an error or the end of the stream ends the connection; a
\* panic in handle_message unwinds the task that called connect_and_listen.
WsListenFrame(frame) ==
    /\ ws.pc = "listening"
    /\ ws.steps < MaxWsSteps
    /\ ws' = [ws EXCEPT
                 !.frames = Append(@, frame),
                 !.steps = @ + 1,
                 !.handled = IF frame \in TextFrames THEN Append(@, frame)
                             ELSE @,
                 !.pc = CASE frame \in {"Close", "Error", "End"} -> "ended"
                          [] frame \in TextFrames
                                 /\ handle_message(frame) = "panic" -> "panicked"
                          [] OTHER -> @,
                 !.result = IF frame \in {"Close", "Error", "End"} THEN "Ok"
                            ELSE @]
    /\ UNCHANGED nonce_counter
    /\ UnchangedByWs

NextWs ==
    \/ \E ok \in BOOLEAN : WsConnect(ok)
    \/ \E timestamp \in Timestamps, ok \in BOOLEAN : WsSendAuth(timestamp, ok)
    \/ \E frame \in ServerFrames : WsAuthFrame(frame)
    \/ \E frame \in ServerFrames : WsListenFrame(frame)

SpecWs == InitSign /\ [][NextWs]_vars

(***************************************************************************)
(* The signers when the clock reads a time before the Unix epoch.          *)
(***************************************************************************)
\* clock readings in seconds relative to the epoch
ClockReadings == {-5, 300}
\* the UUID the HTTP signers draw
ClockNonces == {"uuid-0"}

\* chrono::Utc::now().timestamp().  For a clock before the epoch chrono
\* either panics ("system time before Unix epoch") or, in the versions
\* built on the time crate, yields the negative number of seconds; it never
\* returns an error.  None stands for the panic.
utc_now_timestamp(clock, chrono_panics) ==
    IF clock < 0 /\ chrono_panics THEN None ELSE Some(clock)

\* One call of an HTTP client method: signed_post / signed_get either
\* return the error of duration_since or send the request.
HttpCall(op, http) ==
    /\ IF http = None
       THEN /\ UNCHANGED signed
            /\ last_call' = [op |-> op, args |-> <<>>, result |-> "Err"]
       ELSE /\ Send(http)
            /\ last_call' = [op |-> op, args |-> <<>>, result |-> "Ok"]
    /\ UNCHANGED <<lock, tasks, probe, key_store, snapshot, response, ws, overflow_checks, state,
                   now, events, mining_pc, mining_income, sync_pc,
                   last_synced_entropy, current_entropy, request, sent,
                   net_calls, sync_event, nonce_counter>>

\* CombatClient: configure_defense, get_defense_status, attack
ClockCombat(clock, nonce) ==
    \/ \E config \in DefenseConfigs :
          HttpCall("configure_defense",
                   signed_post(DeviceId, PrivateKey,
                               ApiBase \o "/api/game/defense/configure",
                               <<(<<"l1", JsonNumber(config.l1)>>),
                                 (<<"l2", JsonNumber(config.l2)>>),
                                 (<<"l3", JsonNumber(config.l3)>>)>>,
                               clock, nonce))
    \/ HttpCall("get_defense_status",
                signed_get(DeviceId, PrivateKey,
                           ApiBase \o "/api/game/defense/status",
                           clock, nonce))
    \/ \E target_id \in TargetIds :
          HttpCall("attack",
                   signed_post(DeviceId, PrivateKey,
                               ApiBase \o "/api/game/battle/attack",
                               <<(<<"target_id", JsonString(target_id)>>)>>,
                               clock, nonce))

\* RadarClient::scan
ClockRadar(clock, nonce) ==
    HttpCall("scan",
             radar_signed_post(DeviceId, PrivateKey,
                 ApiBase \o "/api/game/radar/scan",
                 <<(<<"cost_omega", JsonNumber(10)>>),
                   (<<"max_distance", JsonNumber(5000)>>)>>,
                 clock, nonce))

\* start_sync_loop's create_and_sign and sync_to_server.  create_and_sign
\* returns Self, not a Result: a panic of Utc::now() unwinds the sync task.
ClockSync(clock, nonce, chrono_panics) ==
    /\ sync_pc # "dead"
    /\ LET timestamp == utc_now_timestamp(clock, chrono_panics)
       IN  IF timestamp = None
           THEN /\ sync_pc' = "dead"
                /\ last_call' = [op |-> "create_and_sign", args |-> <<>>,
                                 result |-> "panic"]
                /\ UNCHANGED <<signed, request, sent>>
           ELSE LET signed_request ==
                        create_and_sign(DeviceId, 5, 10, 300, SyncIdentity,
                                        nonce, Unwrap(timestamp))
                    http == SyncHttpRequest(ServerUrl, signed_request)
                IN  /\ Send(Some(http))
                    /\ request' = Some(signed_request)
                    /\ sent' = Some(http)
                    /\ last_call' = [op |-> "create_and_sign",
                                     args |-> <<>>, result |-> "Ok"]
                    /\ UNCHANGED sync_pc
    /\ UNCHANGED <<lock, tasks, probe, key_store, snapshot, response, ws, overflow_checks, state,
                   now, events, mining_pc, mining_income,
                   last_synced_entropy, current_entropy, net_calls,
                   sync_event, nonce_counter>>

\* connect_and_listen's create_auth_signature and the send of the AUTH
\* frame, on a connection that is already open.
ClockWsAuth(clock, chrono_panics) ==
    /\ ws.pc = "connected"
    /\ ws.steps < MaxWsSteps
    /\ LET timestamp == utc_now_timestamp(clock, chrono_panics)
       IN  IF timestamp = None
           THEN /\ ws' = [ws EXCEPT !.pc = "failed", !.result = "panic",
                                    !.steps = @ + 1]
                /\ last_call' = [op |-> "create_auth_signature",
                                 args |-> <<>>, result |-> "panic"]
                /\ UNCHANGED nonce_counter
           ELSE LET auth == create_auth_signature(PrivateKey,
                                Unwrap(timestamp), NewNonce(nonce_counter))
                IN  /\ ws' = [ws EXCEPT
                                 !.pc = "auth_wait",
                                 !.sent = Append(@, AuthMessage(DeviceId, auth)),
                                 !.steps = @ + 1]
                    /\ last_call' = [op |-> "create_auth_signature",
                                     args |-> <<>>, result |-> "Ok"]
                    /\ nonce_counter' = nonce_counter + 1
    /\ UNCHANGED <<lock, tasks, probe, key_store, snapshot, response, overflow_checks, state, now,
                   events, mining_pc, mining_income, sync_pc,
                   last_synced_entropy, current_entropy, request, sent,
                   net_calls, sync_event, signed>>

\* A signing call of the HTTP clients at this clock reading.
ClockHttpStep(clock) ==
    \E nonce \in ClockNonces :
        ClockCombat(clock, nonce) \/ ClockRadar(clock, nonce)

\* A signing call of any signer at this clock reading.
ClockStep(clock) ==
    \/ ClockHttpStep(clock)
    \/ \E nonce \in ClockNonces, chrono_panics \in BOOLEAN :
          ClockSync(clock, nonce, chrono_panics)
    \/ \E chrono_panics \in BOOLEAN : ClockWsAuth(clock, chrono_panics)

NextClock ==
    \/ \E clock \in ClockReadings : ClockStep(clock)
    \/ \E ok \in BOOLEAN : WsConnect(ok)

SpecClock == InitSign /\ [][NextClock]_vars

(***************************************************************************)
(* The claims.                                                             *)
(***************************************************************************)
Max(a, b) == IF a >= b THEN a ELSE b

\* max(0, E + D) less the decay floor((R - C) * 0.02) when R > C, over the
\* mathematical integers.
ExpectedEntropy(e, c, d) ==
    LET r == Max(0, e + d)
        decay == IF r > c THEN ((r - c) * 2) \div 100 ELSE 0
    IN  r - decay

\* C1: for every starting entropy E, capacity C and signed delta D,
\* update_entropy leaves entropy = R - decay with R = max(0, E + D) and
\* decay = floor((R - C) * 0.02) if R > C, else 0.
C1_UpdateEntropyFormula ==
    [][\A delta \in DeltaInputs :
          ApplyUpdateEntropy(delta) =>
              state'.player.entropy =
                  ExpectedEntropy(state.player.entropy, state.player.capacity,
                                  delta)]_vars

\* C2: capacity = karma * 100 in every state a reader can observe.
C2_CapacityIsKarmaTimes100 ==
    state.player.capacity = state.player.karma * 100

\* cooldown_ends is set and lies in the future.
CooldownInFuture == 
    /\ state.player.defense.cooldown_ends # None
    /\ Unwrap(state.player.defense.cooldown_ends) > now

Allocation(s) == <<s.player.defense.l1, s.player.defense.l2, s.player.defense.l3>>

\* C3: while cooldown_ends lies in the future, every update_defense call
\* returns the cooldown error, and no step of any task changes l1, l2, l3.
C3_CooldownRejects ==
    [][CooldownInFuture =>
          /\ Allocation(state') = Allocation(state)
          /\ \A arr \in DefenseArrays :
                (Len(arr) = 3 /\ GrpcUpdateDefense(arr)) =>
                    last_call'.result = "OnCooldown"]_vars

\* C3's case: an update_defense call that arrived during a cooldown.
C3_Witness ==
    /\ last_call.op = "update_defense"
    /\ last_call.result = "OnCooldown"
    /\ CooldownInFuture

\* C4: update_defense(l1, l2, l3) succeeds iff there is no active cooldown and
\* the mathematical sum l1 + l2 + l3 is <= entropy; on success the allocation
\* is (l1, l2, l3) and cooldown_ends = now + floor(ln(karma) * 600); with an
\* active cooldown it fails with the cooldown error, otherwise with a too
\* large sum it fails with the insufficient-entropy error.
C4_UpdateDefenseIff ==
    [][\A arr \in DefenseArrays :
          (Len(arr) = 3 /\ GrpcUpdateDefense(arr)) =>
              LET affordable == arr[1] + arr[2] + arr[3] <= state.player.entropy
              IN  /\ last_call'.result = "Ok" <=>
                         (~CooldownInFuture /\ affordable)
                  /\ last_call'.result = "Ok" =>
                         /\ Allocation(state') = arr
                         /\ state'.player.defense.cooldown_ends =
                                Some(now + LnTimes600(state.player.karma))
                  /\ CooldownInFuture => last_call'.result = "OnCooldown"
                  /\ (~CooldownInFuture /\ ~affordable) =>
                         last_call'.result = "InsufficientEntropy"]_vars

\* C5: on a sync tick whose entropy read equals last_synced_entropy, no
\* request is built, no network call is made, karma and last_synced_entropy
\* keep their values and the task waits for the next tick.
C5_ZeroDeltaSkips ==
    [][(SyncTick /\ AsI64(state.player.entropy) = last_synced_entropy) =>
          /\ request' = request
          /\ sent' = sent
          /\ net_calls' = net_calls
          /\ state' = state
          /\ last_synced_entropy' = last_synced_entropy
          /\ sync_pc' = "idle"]_vars

\* C5's case: a tick skipped at a baseline that an earlier sync advanced.
C5_Witness ==
    /\ sync_event.kind = "skip"
    /\ last_synced_entropy > 0
    /\ state.player.entropy = last_synced_entropy

\* C6: a failed sync attempt leaves last_synced_entropy and karma unchanged
\* and the loop waiting for its next tick; a tick with a non-zero difference
\* sends entropy_delta = entropy at that tick - last_synced_entropy.
C6_FailureKeepsBaseline ==
    [][/\ (\E cause \in SyncFailures : SyncErr(cause)) =>
              /\ last_synced_entropy' = last_synced_entropy
              /\ state' = state
              /\ sync_pc' = "idle"
       /\ (SyncTick /\ sync_pc' = "sending") =>
              /\ Unwrap(request').entropy_delta =
                     state.player.entropy - last_synced_entropy
              /\ Unwrap(request').entropy_delta # 0
              /\ Unwrap(sent').body = Unwrap(request').body_json]_vars

\* C6's case: the retry after a failure carries the delta of the failed
\* attempt (5) and what was mined since (5).
C6_Witness ==
    /\ sync_event.kind = "send"
    /\ sync_event.retry
    /\ last_synced_entropy = 0
    /\ Unwrap(request).entropy_delta = 10

\* C7: a successful sync sets karma and capacity from the response and sets
\* last_synced_entropy to the entropy read at the start of the tick, with or
\* without a warning.
C7_SuccessAdvancesBaseline ==
    [][\A device_karma \in ResponseKarma, warning \in BOOLEAN :
          SyncOk(device_karma, warning) =>
              /\ state'.player.karma = AsU64(device_karma)
              /\ state'.player.capacity = state'.player.karma * 100
              /\ last_synced_entropy' = current_entropy
              /\ sync_pc' = "idle"]_vars

\* The message a request's X-Signature was made over.
SignedMessage(http) == http.headers.signature.signature.message

\* s ends with suffix.
EndsWith(s, suffix) ==
    /\ Len(s) >= Len(suffix)
    /\ SubSeq(s, Len(s) - Len(suffix) + 1, Len(s)) = suffix

\* s holds the separator character.
HasPipe(s) == \E i \in 1..Len(s) : SubSeq(s, i, i) = "|"

\* C8: for every POST a signer sends (sync, combat, radar), the body in the
\* signed message is byte for byte the body on the wire, next to the
\* timestamp and nonce of the headers; and while a SignedSyncRequest is held
\* its cached body is the body that was sent and its signature is still the
\* signature of its canonical message.
C8_SignedBodyIsSentBody ==
    /\ \A http \in signed :
          http.method = "POST" =>
             EndsWith(SignedMessage(http),
                      "|" \o http.body \o "|" \o http.headers.timestamp
                          \o "|" \o http.headers.nonce)
    /\ request # NoRequest =>
          /\ sent # None
          /\ Unwrap(sent).body = Unwrap(request).body_json
          /\ Unwrap(sent) \in signed
          /\ Unwrap(request).signature =
                sign_base64(SyncIdentity, canonical_message(Unwrap(request)))

\* A sync POST, a combat POST and a radar POST have been signed and sent, one
\* of them held as the SignedSyncRequest.
C8_Witness ==
    /\ request # NoRequest
    /\ \E a \in signed, b \in signed :
          /\ a.signer = "sync" /\ a.method = "POST" /\ a.body # ""
          /\ b.signer \in {"combat", "radar"} /\ b.method = "POST"
          /\ b.body # ""

\* The five fields a request was signed over, as the signer formatted them:
\* the sync signer writes the path with the /api/ prefix, the combat and
\* radar signers write what follows the first /api/ of the URL.
SignedFields(http) ==
    [method |-> http.method,
     path |-> IF http.signer = "sync"
              THEN SubSeq(http.url, Len(ServerUrl) + 1, Len(http.url))
              ELSE SplitApiNth1(http.url),
     body |-> http.body,
     timestamp |-> http.headers.timestamp,
     nonce |-> http.headers.nonce]

\* C9: signing is deterministic (same key and message, same signature), and
\* two signed requests whose (method, path, body, timestamp, nonce) differ
\* in any field have different canonical messages, also when a device id or
\* a body holds the '|' separator.
C9_CanonicalEncodingInjective ==
    \A a \in signed, b \in signed :
        /\ SignedFields(a) # SignedFields(b)
              => SignedMessage(a) # SignedMessage(b)
        /\ (/\ a.headers.signature.signature.key
                  = b.headers.signature.signature.key
            /\ a.headers.signature.encoding = b.headers.signature.encoding
            /\ SignedMessage(a) = SignedMessage(b))
              => a.headers.signature = b.headers.signature

\* Two requests that differ in exactly one signed field have been signed,
\* where that field holds the separator: two sync requests for different
\* device ids, or two attacks on different targets.
C9_Witness ==
    \E a \in signed, b \in signed :
        LET fa == SignedFields(a)
            fb == SignedFields(b)
        IN  /\ fa.method = fb.method
            /\ fa.timestamp = fb.timestamp
            /\ fa.nonce = fb.nonce
            /\ \/ fa.path # fb.path /\ fa.body = fb.body /\ HasPipe(fa.path)
               \/ fa.path = fb.path /\ fa.body # fb.body /\ HasPipe(fa.body)

\* The path of a URL after a prefix it starts with.
PathAfter(url, prefix) == SubSeq(url, Len(prefix) + 1, Len(url))

\* The candidates for "the fixed API prefix": the server base, or the
\* server base and /api/.
ApiPrefixes == {ServerUrl, ServerUrl \o "/api/"}

\* C10: every signer signs METHOD|PATH|BODY|TIMESTAMP|NONCE, where PATH is
\* the URL's suffix after one fixed API prefix, cut the same way by every
\* signer, and BODY is empty for a GET.
C10_OneCanonicalFormat ==
    \E prefix \in ApiPrefixes :
        \A http \in signed :
            /\ SignedMessage(http) =
                  http.method \o "|" \o PathAfter(http.url, prefix) \o "|"
                      \o http.body \o "|" \o http.headers.timestamp \o "|"
                      \o http.headers.nonce
            /\ http.method = "GET" => http.body = ""

C12_HeadersMatchSignedMessage ==
    \A http \in signed :
        /\ DOMAIN http.headers =
               {"device_id", "signature", "timestamp", "nonce"}
        /\ http.headers.device_id \in DeviceIds
        /\ http.headers.signature.signature.key = PrivateKey
        /\ EndsWith(SignedMessage(http),
                    "|" \o http.headers.timestamp \o "|"
                        \o http.headers.nonce)

\* C12's case: a signed GET and a signed sync POST have been sent.
C12_Witness ==
    \E a \in signed, b \in signed :
        /\ a.method = "GET"
        /\ b.method = "POST" /\ b.signer = "sync"

\* The canonical message of a WebSocket AUTH frame's own timestamp and nonce.
WsCanonical(frame) ==
    "WS|/ws|AUTH|" \o ToString(frame.timestamp) \o "|" \o frame.nonce

\* C13: on each WebSocket connection the client sends the AUTH frame
\* {type, device_id, timestamp, nonce, signature} first, signed over
\* WS|/ws|AUTH|timestamp|nonce with the timestamp and nonce of the frame,
\* before it reads any server frame, and it sends exactly one AUTH frame
\* and nothing else on the connection.
C13_AuthIsFirstAndOnlyFrame ==
    /\ \A i \in 1..Len(ws.sent) :
          /\ DOMAIN ws.sent[i] =
                 {"type", "device_id", "timestamp", "nonce", "signature"}
          /\ ws.sent[i].type = "AUTH"
          /\ ws.sent[i].device_id = DeviceId
          /\ ws.sent[i].signature =
                 sign_base64(PrivateKey, WsCanonical(ws.sent[i]))
    /\ Len(ws.frames) > 0 => Len(ws.sent) = 1
    /\ ws.pc \in {"auth_wait", "listening", "ended"} => Len(ws.sent) = 1
    /\ Len(ws.sent) <= 1

\* C13's case: a second connection of the run has sent its AUTH frame and
\* read a server frame.
C13_Witness ==
    /\ Len(ws.sent) = 1
    /\ Len(ws.frames) > 0
    /\ ws.sent[1].nonce # NewNonce(0)

\* The server frames read before position i hold an auth-success frame.
AuthSuccessBefore(frames, i) ==
    \E j \in 1..(i - 1) : frames[j] = "AUTH_SUCCESS"

\* C14: on a WebSocket connection no frame reaches handle_message before an
\* auth-success frame was read; a frame read before it is dropped or ends
\* the attempt with an error, and the listening phase is entered only by
\* reading auth-success.
C14_NoFrameHandledBeforeAuth ==
    /\ Len(ws.handled) > 0 => AuthSuccessBefore(ws.frames, Len(ws.frames))
    /\ ws.pc = "listening" =>
          AuthSuccessBefore(ws.frames, Len(ws.frames) + 1)
    /\ ~AuthSuccessBefore(ws.frames, Len(ws.frames) + 1) =>
          /\ ws.handled = <<>>
          /\ ws.pc \in {"idle", "connected", "auth_wait", "failed"}
          /\ ws.pc = "failed" => ws.result # "Ok"
    /\ Len(ws.handled) <= Len(ws.frames)

\* C14's case: a frame that arrived before auth-success was dropped, and a
\* text frame read after auth-success was handed to handle_message.
C14_Witness ==
    /\ Len(ws.frames) >= 3
    /\ ws.frames[1] = "battle_result"
    /\ ws.frames[2] = "AUTH_SUCCESS"
    /\ ws.handled = <<ws.frames[3]>>

\* All the writes of the store operation a call names, applied to s.
CompletedWrites(s, call, t) ==
    CASE call.op = "update_entropy" ->
            update_entropy(s, call.args[1], t).state
      [] call.op = "update_defense" ->
            update_defense(s, call.args[1], call.args[2], call.args[3],
                           t).state
      [] call.op = "update_karma" ->
            [s EXCEPT !.player.karma = call.args[1],
                      !.player.capacity = KarmaCapacity(call.args[1])]
      [] call.op = "update_network_quality" ->
            update_network_quality(s, call.args[1])
      [] OTHER -> s

\* C15: store operations are atomic under every interleaving of the mining,
\* probe, sync and RPC tasks: whenever the state that readers see changes,
\* it changes by all the writes of one store operation (karma with capacity,
\* l1/l2/l3 with cooldown_ends), and a snapshot that is taken is that state.
C15_StoreOperationsAtomic ==
    [][/\ state' # state =>
              state' = CompletedWrites(state, last_call', now)
       /\ (snapshot' # None /\ snapshot = None) =>
              snapshot' = Some(state)]_vars

StoreAccess ==
    [mining |-> "StateManager", probe |-> "StateManager",
     grpc |-> "StateManager", sync |-> "Arc<RwLock<GameState>>"]

\* The tasks that are still running and so still hold what they were handed.
LiveTasks ==
    {"probe", "grpc"}
        \cup (IF mining_pc # "dead" THEN {"mining"} ELSE {})
        \cup (IF sync_pc # "dead" THEN {"sync"} ELSE {})

\* The named mutation operations of the store.
NamedOperations ==
    {"update_entropy", "update_defense", "update_network_quality",
     "update_karma", "add_parasite"}

\* Every write to GameState is performed by one of the store's named
\* operations.
WritesAreNamedOperations ==
    [][state' # state => last_call'.op \in NamedOperations]_vars

\* C17: no component outside the store holds a long-lived handle through
\* which GameState can be mutated (every running task reaches the store
\* only through snapshots and named operations), and every write to
\* GameState is performed by one of the store's named operations.
C17_NoLongLivedHandle ==
    /\ [](\A task \in LiveTasks : StoreAccess[task] = "StateManager")
    /\ WritesAreNamedOperations

\* the error strings of the store's update_defense
IsStoreDefenseError(error) ==
    \/ error = Some("Insufficient Entropy")
    \/ /\ error # None
       /\ Len(Unwrap(error)) > 19
       /\ SubSeq(Unwrap(error), 1, 19) = "Defense on cooldown"

\* C18: UpdateDefense never propagates a fault to the transport.  A request
\* whose allocation list does not have exactly three values is answered
\* with success = false and an error string, without a call of the store
\* and with the state unchanged; otherwise the store's result is mapped to
\* success = true with no error, or success = false with the store's error
\* string (cooldown, insufficient entropy).
C18_UpdateDefenseNeverFaults ==
    [][\A arr \in DefenseArrays :
          GrpcUpdateDefense(arr) =>
              /\ response'.rpc = "UpdateDefense"
              /\ ~response'.fault
              /\ Len(arr) # 3 =>
                     /\ ~response'.success
                     /\ response'.error # None
                     /\ last_call'.op # "update_defense"
                     /\ state' = state
              /\ Len(arr) = 3 =>
                     \/ /\ response'.success
                        /\ response'.error = None
                        /\ last_call'.result = "Ok"
                     \/ /\ ~response'.success
                        /\ IsStoreDefenseError(response'.error)
                        /\ last_call'.result
                               \in {"OnCooldown", "InsufficientEntropy"}
                        /\ state' = state]_vars

\* The mapping of C18 for the requests on which the store call returns.
UpdateDefenseMapsReturnedResult ==
    [][\A arr \in DefenseArrays :
          (GrpcUpdateDefense(arr) /\ ~response'.fault) =>
              /\ response'.rpc = "UpdateDefense"
              /\ Len(arr) # 3 =>
                     /\ ~response'.success
                     /\ response'.error # None
                     /\ last_call'.op # "update_defense"
                     /\ state' = state
              /\ Len(arr) = 3 =>
                     \/ /\ response'.success
                        /\ response'.error = None
                        /\ last_call'.result = "Ok"
                     \/ /\ ~response'.success
                        /\ IsStoreDefenseError(response'.error)
                        /\ last_call'.result
                               \in {"OnCooldown", "InsufficientEntropy"}
                        /\ state' = state]_vars

\* C19: GetStatus builds its whole response from one state of the store
\* (karma, entropy, capacity, defense and parasite count of one response
\* belong to the same state), and it reports the remaining cooldown seconds
\* exactly when cooldown_ends is in the future, which is exactly when an
\* update_defense at that instant would be rejected for cooldown; otherwise
\* the cooldown field is omitted.
C19_GetStatusFromOneSnapshot ==
    [][(/\ events' # events /\ state' = state /\ now' = now
        /\ last_call' = last_call /\ mining_pc' = mining_pc
        /\ sync_pc' = sync_pc /\ sync_event' = sync_event
        /\ GrpcGetStatus) =>
          LET ends == state.player.defense.cooldown_ends
              rejected == update_defense(state, 0, 0, 0, now).result
                              = "OnCooldown"
          IN  /\ response'.rpc = "GetStatus"
              /\ response'.karma = state.player.karma
              /\ response'.entropy = state.player.entropy
              /\ response'.capacity = state.player.capacity
              /\ <<response'.defense.l1, response'.defense.l2,
                    response'.defense.l3>> = Allocation(state)
              /\ response'.parasite_count = Len(state.parasites)
              /\ response'.defense.cooldown_seconds # None <=> CooldownInFuture
              /\ response'.defense.cooldown_seconds # None <=> rejected
              /\ CooldownInFuture =>
                     response'.defense.cooldown_seconds = Some(Unwrap(ends) - now)
          ]_vars

\* C19's case: a status response that reports a running cooldown.
C19_Witness ==
    /\ response.rpc = "GetStatus"
    /\ response.defense.cooldown_seconds # None
    /\ Unwrap(response.defense.cooldown_seconds) > 0
    /\ response.entropy > 0

\* C20: network_quality lies in [0.1, 1.5] in every reachable state: it
\* starts at 1.0, update_network_quality(q) stores q clamped to [0.1, 1.5]
\* for every q, and no other operation changes it.
C20_NetworkQualityInRange ==
    /\ state.player.network_quality # NaN
    /\ 1 <= state.player.network_quality
    /\ state.player.network_quality <= 15

\* network_quality is written by update_network_quality only.
OnlyUpdateNetworkQualityWritesQuality ==
    [][state'.player.network_quality # state.player.network_quality =>
          last_call'.op = "update_network_quality"]_vars

\* What the probe loop stores is one of the five steps of
\* calculate_network_quality, so the daemon's own runs stay in range.
ProbedQualityInRange ==
    state.player.network_quality \in {1, 5, 10, 12, 15}

\* s is a prefix of t
IsPrefix(s, t) == Len(s) <= Len(t) /\ SubSeq(t, 1, Len(s)) = s

\* C21: after any sequence of store operations passive_income equals the
\* sum of yield_per_tick over the parasites in the state; add_parasite
\* appends exactly one element, and no operation removes or reorders a
\* parasite (the list only grows).
C21_PassiveIncomeIsSumOfYields ==
    /\ [](state.player.passive_income = SumYield(state.parasites))
    /\ [][/\ IsPrefix(state.parasites, state'.parasites)
          /\ \A parasite \in ParasiteInputs :
                ApplyAddParasite(parasite) =>
                    state'.parasites = Append(state.parasites, parasite)
          /\ last_call'.op # "add_parasite" =>
                state'.parasites = state.parasites]_vars

\* C21's case: two parasites with a yield were added and another store
\* operation ran after them.
C21_Witness ==
    /\ Len(state.parasites) = 2
    /\ state.parasites[1].yield_per_tick > 0
    /\ state.parasites[2].yield_per_tick > 0
    /\ last_call.op \in {"update_entropy", "update_karma", "update_defense"}

\* C22: with karma = 1 the inertia is 0 seconds, so defense reconfiguration
\* has no effective cooldown: after a successful update_defense, an
\* immediately following update_defense with an affordable allocation is
\* not rejected with the cooldown error and succeeds.
C22_KarmaOneHasNoCooldown ==
    [][\A arr \in DefenseArrays :
          (/\ ApplyStoreDefense(arr)
           /\ state.player.karma = 1
           /\ last_call.op = "update_defense"
           /\ last_call.result = "Ok"
           /\ arr[1] + arr[2] + arr[3] <= state.player.entropy) =>
              /\ calculate_inertia_seconds(state.player) = 0
              /\ ~CooldownInFuture
              /\ last_call'.result = "Ok"
              /\ Allocation(state') = arr]_vars

\* C22's case: on a player of karma 1 that holds entropy, a reconfiguration
\* succeeded at the very instant the cooldown of a reconfiguration ends.
C22_Witness ==
    /\ state.player.karma = 1
    /\ state.player.entropy >= 3
    /\ last_call.op = "update_defense"
    /\ last_call.result = "Ok"
    /\ events >= 3
    /\ state.player.defense.cooldown_ends = Some(now)

\* the tenths of a quality written as a decimal number
DecimalTenths(q) == ToString(q \div 10) \o "." \o ToString(q % 10)

\* the JSON body {"entropy_delta":..,"network_quality":..,"uptime_seconds":..}
ExpectedSyncBody(delta, quality, uptime) ==
    "{" \o "\"entropy_delta\":" \o ToString(delta) \o ","
        \o "\"network_quality\":" \o DecimalTenths(quality) \o ","
        \o "\"uptime_seconds\":" \o ToString(uptime) \o "}"

RECURSIVE SplitPipe(_)
SplitPipe(s) ==
    LET i == Find(s, "|")
    IN  IF i = 0 THEN <<s>>
        ELSE <<SubSeq(s, 1, i - 1)>> \o SplitPipe(SubSeq(s, i + 1, Len(s)))

\* The fields of the message an AUTH frame's signature was made over.
WsSignedFields(frame) == SplitPipe(frame.signature.signature.message)

\* C24 as stated: for the streaming (WebSocket) transport the canonical
\* message that is signed has a fixed literal path component and an empty
\* body component.
C24_WsPathLiteralBodyEmpty ==
    \A i \in 1..Len(ws.sent) :
        LET fields == WsSignedFields(ws.sent[i])
        IN  /\ Len(fields) = 5
            /\ fields[2] = "/ws"
            /\ fields[3] = ""

\* C24 as amended: the canonical message that is signed for the streaming
\* transport is METHOD|PATH|BODY|TIMESTAMP|NONCE with the fixed literal
\* method WS, the fixed literal path /ws and the fixed literal AUTH in the
\* place of the body, followed by the frame's timestamp and nonce.
C24_WsPathLiteralBodyAuth ==
    \A i \in 1..Len(ws.sent) :
        LET fields == WsSignedFields(ws.sent[i])
        IN  /\ Len(fields) = 5
            /\ fields[1] = "WS"
            /\ fields[2] = "/ws"
            /\ fields[3] = "AUTH"
            /\ fields[4] = ToString(ws.sent[i].timestamp)
            /\ fields[5] = ws.sent[i].nonce

\* C24's case: an AUTH frame was signed and sent and the connection waits
\* for the reply.
C24_Witness ==
    /\ ws.pc = "auth_wait"
    /\ Len(ws.sent) = 1
    /\ Len(WsSignedFields(ws.sent[1])) = 5

\* the last element of a non-empty sequence
Last(seq) == seq[Len(seq)]

\* C25: identity loading is idempotent: the first load_or_generate on a path
\* with no key file generates a key and writes it; every later
\* load_or_generate on the same unmodified file writes nothing and yields
\* the identical public key, and signatures made with a loaded identity
\* verify under its public key.
C25_LoadOrGenerateIdempotent ==
    /\ [](\A i \in 1..Len(key_store.returned) :
            key_store.returned[i].ok =>
               LET identity == key_store.returned[i].identity
               IN  /\ verify(identity.verifying_key, "Hello, SACAS!",
                             sign(identity.signing_key, "Hello, SACAS!"))
                   /\ \A j \in 1..Len(key_store.returned) :
                         key_store.returned[j].ok =>
                            public_key_base64(key_store.returned[j].identity)
                                = public_key_base64(identity))
    /\ [][key_store' # key_store =>
            LET result == Last(key_store'.returned)
            IN  /\ (key_store.file = None /\ result.ok) =>
                       /\ key_store'.file
                              = Some(result.identity.signing_key.secret)
                       /\ Len(Unwrap(key_store'.file)) = KeyLen
                       /\ key_store'.writes = key_store.writes + 1
                /\ key_store.file # None =>
                       /\ key_store'.file = key_store.file
                       /\ key_store'.writes = key_store.writes
                /\ (\E k \in 1..Len(key_store.returned) :
                         key_store.returned[k].ok) =>
                       \A random \in RandomKeys, outcome \in SaveOutcomes :
                           LoadOrGenerate(random, TRUE, outcome) => result.ok
           ]_vars

\* C25's case: the first call found no file, generated and wrote the key,
\* and two later calls loaded it.
C25_Witness ==
    /\ Len(key_store.returned) = 3
    /\ \A i \in 1..3 : key_store.returned[i].ok
    /\ key_store.writes = 1
    /\ key_store.reads = 2

\* C26: if the key file exists but is not exactly 32 bytes, load_or_generate
\* fails with an error, does not retry, does not generate a replacement key
\* and leaves the existing file unchanged.
C26_InvalidKeyFileFails ==
    [][(/\ key_store' # key_store
        /\ key_store.file # None
        /\ Len(Unwrap(key_store.file)) # KeyLen) =>
           /\ ~Last(key_store'.returned).ok
           /\ Len(key_store'.returned) = Len(key_store.returned) + 1
           /\ key_store'.reads = key_store.reads + 1
           /\ key_store'.writes = key_store.writes
           /\ key_store'.file = key_store.file]_vars

\* C26's case: load_or_generate has been called on a key file of 31 bytes
\* whose read succeeded.
C26_Witness ==
    /\ key_store.file = Some(Bytes(KeyLen - 1, 7))
    /\ Len(key_store.returned) >= 2
    /\ \E i \in 1..Len(key_store.returned) :
          /\ ~key_store.returned[i].ok
          /\ key_store.returned[i].error
                 = "Invalid key file: expected 32 bytes, got 31"

\* C27: in every signer (sync, combat, radar, WebSocket auth), if the system
\* clock cannot supply a Unix timestamp the signing call fails with an
\* error and no network send is attempted for that request.
C27_ClockFailureAbortsSigning ==
    [][\A clock \in ClockReadings :
          (clock < 0 /\ ClockStep(clock)) =>
              /\ last_call'.result = "Err"
              /\ signed' = signed
              /\ ws'.sent = ws.sent]_vars

\* The HTTP clients (combat and radar) do fail with an error and send
\* nothing when the clock is before the epoch.
ClockFailureAbortsHttpClients ==
    [][\A clock \in ClockReadings :
          (clock < 0 /\ ClockHttpStep(clock)) =>
              /\ last_call'.result = "Err"
              /\ signed' = signed
              /\ ws'.sent = ws.sent]_vars

\* C28: within each producer (mining, network probe, remote sync) ticks
\* never overlap: a producer starts tick n+1 only after every store
\* interaction (and, for sync, the network call and the baseline update) of
\* tick n has completed, so at most one store operation per producer is in
\* flight at any time.
C28_TicksNeverOverlap ==
    /\ [](/\ mining_pc = "idle" => snapshot = None
          /\ sync_pc = "idle" => (sent = None /\ request = NoRequest))
    /\ [][/\ (/\ events' # events /\ snapshot' # None /\ state' = state
              /\ response' = response /\ sync_pc' = sync_pc
              /\ MiningTick) =>
                (mining_pc = "idle" /\ snapshot = None)
          /\ (mining_pc' # mining_pc /\ MiningApply) =>
                (mining_pc = "apply" /\ snapshot # None)
          /\ (/\ events' # events /\ last_call' = last_call
              /\ state' = state /\ mining_pc' = mining_pc
              /\ response' = response /\ now' = now
              /\ SyncTick) =>
                (sync_pc = "idle" /\ sent = None /\ request = NoRequest)
          /\ (sync_pc = "sending" /\ sync_pc' = "idle") =>
                /\ sent' = None
                /\ sync_event'.kind = "ok" =>
                       last_synced_entropy' = current_entropy
         ]_vars

\* C28's case: the mining loop is in its second tick, right after its
\* update_entropy, while the sync loop waits for the reply to a request.
C28_Witness ==
    /\ mining_pc = "log"
    /\ state.player.entropy >= 10
    /\ sync_pc = "sending"
    /\ sent # None

\* C29: once started, each producer loops forever with no terminal state: a
\* failed sync attempt, a failed probe or any store result never ends the
\* loop, and after every tick (successful, skipped or failed) the producer
\* returns to waiting for its next timer tick.
C29_ProducersLoopForever ==
    /\ [](sync_pc # "dead" /\ mining_pc # "dead")
    /\ [][/\ (sync_pc = "sending" /\ sync_pc' # sync_pc) => sync_pc' = "idle"
          /\ (mining_pc = "log" /\ mining_pc' # mining_pc) =>
                mining_pc' = "idle"]_vars

\* In a build without overflow checks no store result and no failed sync
\* attempt ends a loop.
ProducersLoopForeverWhenWrapping ==
    ~overflow_checks => (sync_pc # "dead" /\ mining_pc # "dead")

\* A failed sync attempt leaves the sync loop waiting for its next tick.
FailedSyncKeepsLooping ==
    [][\A cause \in SyncFailures : SyncErr(cause) => sync_pc' = "idle"]_vars

\* y = floor(sqrt(karma) * network_quality * 0.5), network_quality in tenths
IsFloorOfYield(y, karma, quality) ==
    /\ y >= 0
    /\ 400 * y * y <= karma * quality * quality
    /\ karma * quality * quality < 400 * (y + 1) * (y + 1)

IsMedian(m, seq) ==
    /\ \E i \in 1..Len(seq) : seq[i] = m
    /\ 2 * Cardinality({i \in 1..Len(seq) : seq[i] <= m}) >= Len(seq)
    /\ 2 * Cardinality({i \in 1..Len(seq) : seq[i] >= m}) >= Len(seq)

\* C31: a probe tick never aborts because an anchor is unreachable: it
\* returns Ok, every anchor whose address parses is pinged 3 times, the
\* latency vector has one entry per configured anchor, that entry is a median
\* of the anchor's successful samples, or the sentinel 999 when no sample
\* succeeded or the address does not parse, and update_network_quality is
\* called on that tick with the quality of that vector.
C31_ProbeTickNeverAborts ==
    probe # NoProbe =>
        /\ probe.result = "Ok"
        /\ Len(probe.data) = Len(probe.anchors)
        /\ \A i \in 1..Len(probe.anchors) :
              LET good == SelectSeq(probe.pings[i], LAMBDA p : p # None)
                  lat == [j \in 1..Len(good) |-> Unwrap(good[j])]
              IN  /\ probe.anchors[i].ip_parses => Len(probe.pings[i]) = 3
                  /\ IF ~probe.anchors[i].ip_parses \/ good = <<>>
                     THEN probe.data[i] = 999
                     ELSE IsMedian(probe.data[i], lat)
        /\ last_call.op = "update_network_quality"
        /\ last_call.args = <<calculate_network_quality(probe.data)>>
        /\ state.player.network_quality = last_call.args[1]

\* C31's case: a tick with one anchor that never answers and one anchor with
\* a failed sample among two answers.
C31_Witness ==
    /\ Len(probe.anchors) = 2
    /\ probe.pings[1] = <<None, None, None>>
    /\ probe.pings[2] = <<Some(850), None, Some(50)>>
    /\ probe.data = <<999, 850>>
    /\ last_call.op = "update_network_quality"

\* single-anchor latency vectors on and around the thresholds
ReferenceVectors == {<<m>> : m \in {0, 29, 30, 99, 100, 199, 200, 499, 500, 999}}

\* C32: the quality a probe tick stores is a step function of the mean
\* latency of its vector: 1.5 below 30ms, 1.2 below 100ms, 1.0 below 200ms,
\* 0.5 below 500ms and 0.1 otherwise (qualities in tenths); it lies within
\* [0.1, 1.5], a vector with a larger mean never gets a larger quality, and a
\* tick in which every anchor reports the sentinel stores 0.1.
C32_QualityStepFunction ==
    (probe # NoProbe /\ probe.result = "Ok") =>
        LET n == Len(probe.data)
            total == SumSeq(probe.data)
            q == state.player.network_quality
        IN  /\ q >= 1 /\ q <= 15
            /\ n > 0 =>
                  /\ total < 30 * n => q = 15
                  /\ (total >= 30 * n /\ total < 100 * n) => q = 12
                  /\ (total >= 100 * n /\ total < 200 * n) => q = 10
                  /\ (total >= 200 * n /\ total < 500 * n) => q = 5
                  /\ total >= 500 * n => q = 1
            /\ (\A i \in 1..n : probe.data[i] = 999) => q = 1
            /\ \A v \in ReferenceVectors :
                  /\ (n > 0 /\ v[1] * n >= total) =>
                         calculate_network_quality(v) <= q
                  /\ (n > 0 /\ v[1] * n <= total) =>
                         calculate_network_quality(v) >= q

\* C32's case: a tick whose mean latency is exactly 100ms, the lower edge of
\* the 1.0 band.
C32_Witness ==
    /\ probe.data = <<150, 50>>
    /\ state.player.network_quality = 10
    /\ last_call.op = "update_network_quality"

\* the other bands and the all-sentinel tick are reached too
C32_WitnessBands ==
    /\ probe.data = <<999, 999>>
    /\ state.player.network_quality = 1

\* An unknown text frame read in the listening phase is dropped: the
\* client goes on listening and nothing else changes.
UnknownFramesAreDropped ==
    [][(ws.pc = "listening" /\ ws' # ws
            /\ Last(ws'.frames) \in TextFrames
            /\ ParseServerMessage(Last(ws'.frames)) = "Unknown") =>
          /\ handle_message(Last(ws'.frames)) = "logged unknown"
          /\ ws'.pc = "listening"
          /\ ws'.result = ws.result
          /\ ws'.sent = ws.sent
          /\ state' = state /\ signed' = signed /\ last_call' = last_call
      ]_vars

\* C33: after authentication a text frame of an unknown type is decoded to
\* Unknown, logged and dropped without ending the listen loop or changing
\* state, and only a Close frame, a transport error or the end of the stream
\* ends the listening phase.
C33_OnlyCloseErrorEndStopListening ==
    [][(ws.pc = "listening" /\ ws' # ws) =>
          /\ (Last(ws'.frames) \in TextFrames
                 /\ ParseServerMessage(Last(ws'.frames)) = "Unknown") =>
                 /\ ws'.pc = "listening"
                 /\ ws'.result = ws.result
                 /\ state' = state
          /\ ws'.pc # "listening" =>
                 Last(ws'.frames) \in {"Close", "Error", "End"}
      ]_vars

\* the errors connect_and_listen returns from its wait for the auth reply
AuthErrors ==
    {"Authentication failed", "Connection closed before authentication",
     "WebSocket error", "Authentication timeout"}

\* C40: while the client waits for auth-success, a Close frame, a transport
\* error, an unparsable text frame or the end of the stream makes
\* connect_and_listen return an error without entering the listening phase
\* (no frame of that connection is ever handled), and a text frame of any
\* other known or unknown kind is skipped: the client keeps waiting.
C40_AuthWaitFailsOrSkips ==
    /\ [](ws.result \in AuthErrors => (ws.pc = "failed" /\ ws.handled = <<>>))
    /\ [][(ws.pc = "auth_wait" /\ ws' # ws) =>
             LET frame == Last(ws'.frames)
                 unparsable == frame \in TextFrames
                                  /\ ParseServerMessage(frame) = "Err"
                 other_text == frame \in TextFrames
                                  /\ ParseServerMessage(frame)
                                         \notin {"AuthSuccess", "Err"}
             IN  /\ (frame \in {"Close", "Error", "End"} \/ unparsable) =>
                        /\ ws'.pc = "failed"
                        /\ ws'.result \in AuthErrors
                        /\ ws'.handled = <<>>
                 /\ other_text =>
                        /\ ws'.pc = "auth_wait"
                        /\ ws'.result = ws.result
                        /\ ws'.handled = <<>>
         ]_vars

\* C40's case: an unknown and a known frame are skipped, then an unparsable
\* text frame ends the wait with an error.
C40_Witness ==
    /\ ws.frames = <<"mystery", "battle_attacked:abc", "malformed">>
    /\ ws.pc = "failed"
    /\ ws.result = "Authentication failed"

\* The sync loop's bookkeeping while update_karma returns: an Ok reply adds
\* the reported delta to last_synced_entropy, a tick reports the entropy it
\* read minus last_synced_entropy, and nothing else moves last_synced_entropy.
SyncBookkeepingWhileKarmaFits ==
    [][/\ (sync_pc = "sending" /\ sync_event'.kind = "ok"
              /\ last_call'.result # "panic") =>
              last_synced_entropy' =
                  last_synced_entropy + Unwrap(request).entropy_delta
       /\ (sync_pc = "idle" /\ sync_pc' = "sending") =>
              last_synced_entropy + Unwrap(request').entropy_delta
                  = AsI64(state.player.entropy)
       /\ (last_synced_entropy' # last_synced_entropy) =>
              (sync_pc = "sending" /\ sync_event'.kind = "ok")
      ]_vars

\* C34: last_synced_entropy is the sum of the entropy_delta of the sync
\* requests that completed successfully: it starts at 0, every request that
\* sync_to_server answers with Ok adds its entropy_delta to it and nothing
\* else changes it, so at every tick last_synced_entropy plus the delta
\* reported equals the entropy read on that tick, whatever the other
\* producers did in between.
C34_BaselineIsSumOfAckedDeltas ==
    /\ [](sync_event.kind = "none" => last_synced_entropy = 0)
    /\ [][/\ (sync_pc = "sending" /\ sync_event'.kind = "ok") =>
                 last_synced_entropy' =
                     last_synced_entropy + Unwrap(request).entropy_delta
          /\ (sync_pc = "idle" /\ sync_pc' = "sending") =>
                 last_synced_entropy + Unwrap(request').entropy_delta
                     = AsI64(state.player.entropy)
          /\ (last_synced_entropy' # last_synced_entropy) =>
                 (sync_pc = "sending" /\ sync_event'.kind = "ok")
         ]_vars

\* a second successful sync that reported what mining added in between
C34_SecondSyncReached ==
    /\ sync_event.kind = "ok"
    /\ last_synced_entropy > 0
    /\ state.player.entropy > last_synced_entropy
    /\ net_calls >= 2

\* C38: an update_defense that fails for cooldown or insufficient entropy
\* leaves the whole GameState as it was, defense record included; one that
\* succeeds changes the defense record only: entropy, karma, capacity,
\* network_quality, passive_income and the parasites are as before (the
\* allocation is not deducted from entropy).
C38_UpdateDefenseFrame ==
    [][\A arr \in DefenseArrays :
          (events' # events /\ ApplyStoreDefense(arr)) =>
              /\ last_call'.result \in {"OnCooldown", "InsufficientEntropy"} =>
                     state' = state
              /\ last_call'.result = "Ok" =>
                     /\ [state' EXCEPT !.player.defense = state.player.defense]
                            = state
                     /\ state'.player.entropy = state.player.entropy
                     /\ Allocation(state') = arr
      ]_vars

\* C38's case: a successful allocation of 3 out of a balance of 50, which
\* is still 50.
C38_Witness ==
    /\ last_call.op = "update_defense"
    /\ last_call.result = "Ok"
    /\ Allocation(state) = <<1, 1, 1>>
    /\ state.player.entropy = 50

\* a failed call that followed a successful one: the allocation is kept
C38_WitnessFailed ==
    /\ last_call.op = "update_defense"
    /\ last_call.result = "OnCooldown"
    /\ Allocation(state) = <<1, 1, 1>>

\* The decay step of update_entropy by itself: when the balance the code
\* holds after the addition (E + D wrapped to a u64, or E - |D| saturated at
\* 0) exceeds capacity, the stored entropy is at least capacity and at most
\* that balance.
DecayStaysAboveCapacity ==
    [][\A delta \in DeltaInputs :
          (ApplyUpdateEntropy(delta) /\ last_call'.result = "Ok") =>
              LET e == state.player.entropy
                  added == IF delta >= 0 THEN WrapU64(e + delta)
                           ELSE Max(0, e + delta)
              IN  added > state.player.capacity =>
                      /\ state'.player.entropy >= state.player.capacity
                      /\ state'.player.entropy <= added
      ]_vars

\* C39: decay never takes entropy below capacity: whenever R = max(0, E + D)
\* exceeds capacity, the entropy update_entropy leaves is at least capacity
\* and at most R; and an update_entropy with D >= 0 on a state with entropy
\* <= capacity never decreases entropy.
C39_DecayNeverBelowCapacity ==
    [][\A delta \in DeltaInputs :
          (ApplyUpdateEntropy(delta) /\ last_call'.result = "Ok") =>
              LET e == state.player.entropy
                  r == Max(0, e + delta)
              IN  /\ r > state.player.capacity =>
                         /\ state'.player.entropy >= state.player.capacity
                         /\ state'.player.entropy <= r
                  /\ (delta >= 0 /\ e <= state.player.capacity) =>
                         state'.player.entropy >= e
      ]_vars

\* both callers have returned from the store operation op
BothReturnedFrom(op) ==
    \A t \in Callers : tasks[t].pc = "done" /\ tasks[t].op = op

\* C35: two update_entropy calls of different tasks are never lost: once
\* both have returned, the entropy is the result of running one call's
\* read-add-decay-write on the starting balance and the other's on the
\* result of the first, for one of the two orders.
C35_ConcurrentEntropyUpdatesSerialize ==
    BothReturnedFrom("update_entropy") =>
        \E first \in Callers : \E second \in Callers \ {first} :
            LET f == tasks[first]
                g == tasks[second]
                after_f == update_entropy(Unwrap(f.seen), f.args[1], now).state
                after_g == update_entropy(Unwrap(g.seen), g.args[1], now).state
            IN  /\ Unwrap(f.seen).player.entropy = LockEntropy
                /\ Unwrap(g.seen).player.entropy = after_f.player.entropy
                /\ state.player.entropy = after_g.player.entropy
                /\ state.player.entropy > LockEntropy + f.args[1]
                /\ state.player.entropy > LockEntropy + g.args[1]

\* C35's case: both calls have returned on a store of capacity 100, where
\* the decay makes the two orders differ (277 and 275).
C35_Witness ==
    /\ BothReturnedFrom("update_entropy")
    /\ state.player.capacity = 100
    /\ state.player.entropy = 275

\* C36: two UpdateDefense requests with affordable allocations that meet a
\* store without a cooldown and with karma >= 2: exactly one returns Ok and
\* the other the cooldown error, and the defense record stored is the one
\* the successful request wrote: its l1, l2, l3 and its cooldown_ends.
C36_ConcurrentDefenseUpdatesOneWins ==
    (/\ BothReturnedFrom("update_defense")
     /\ \A t \in Callers :
           /\ Unwrap(tasks[t].seen).player.karma >= 2
           /\ tasks[t].args[1] + tasks[t].args[2] + tasks[t].args[3]
                  <= Unwrap(tasks[t].seen).player.entropy) =>
        \E winner \in Callers : \E loser \in Callers \ {winner} :
            LET w == tasks[winner]
            IN  /\ w.result = "Ok"
                /\ tasks[loser].result = "OnCooldown"
                /\ Unwrap(w.seen).player.defense.cooldown_ends = None
                /\ Allocation(state) = w.args
                /\ state.player.defense.cooldown_ends =
                       Some(now + calculate_inertia_seconds(
                                      Unwrap(w.seen).player))
                /\ Unwrap(state.player.defense.cooldown_ends) > now
                /\ state.player.entropy = LockEntropy

\* C36's case: the second caller won, the first one met its cooldown.
C36_Witness ==
    /\ BothReturnedFrom("update_defense")
    /\ state.player.karma = 100
    /\ tasks["caller-2"].result = "Ok"
    /\ tasks["caller-1"].result = "OnCooldown"
    /\ Allocation(state) = <<10, 0, 0>>

\* C37: a task holds the store's lock only while it runs the body of a
\* store operation, never while it waits for its timer or for the network
\* (the sync task has dropped its read guard when it signs and sends), and
\* under fair scheduling every task that awaits the lock gets it and leaves
\* the operation, also while the sync task's network call is outstanding.
C37_NoLockAcrossWaits ==
    /\ [](\A t \in LockTasks :
             (t \in lock.writers \cup lock.readers) => tasks[t].pc = "in")
    /\ \A t \in LockTasks :
          (tasks[t].pc = "want") ~> (tasks[t].pc \notin {"want", "in"})

\* C37's case: the sync task's network call is outstanding, one caller's
\* write has completed meanwhile and the other caller holds the write lock.
C37_Witness ==
    /\ tasks["sync"].pc = "io"
    /\ tasks["caller-1"].pc = "done"
    /\ tasks["caller-1"].op = "update_entropy"
    /\ state.player.entropy = 130
    /\ tasks["caller-2"].pc = "in"
    /\ lock.writers = {"caller-2"}

====
